---------------------------- MODULE Spec2Model ----------------------------
(***************************************************************************)
(* Model of the accounts hash verifier service                             *)
(* (core/src/accounts_hash_verifier.rs): the accounts package channel, the *)
(* selection of the next package (get_next_accounts_package), and the      *)
(* worker loop (hash, purge of old accounts hashes, submit for packaging). *)
(***************************************************************************)
EXTENDS Integers, Sequences, FiniteSets, TLC

(***************************************************************************)
(* Bounds of the model.                                                    *)
(***************************************************************************)
\* longest initial channel content explored for the selector on its own
MaxQueue == 4
\* largest slot of a package in the selector's package universe; an incremental
\* snapshot package has a base slot below its own slot
MaxSlot == 2
\* number of packages the upstream sends in a run of the worker loop
MaxSends == 4
\* packages the upstream under no contract sends
MaxSendsAny == 2
\* largest slot of the packages the comparator is tried on
MaxCmpSlot == 4
\* datagrams sent to the reader socket, packets in the caller's buffer, and the
\* batch limit (64 in solana_perf, scaled down so that a run holds more
\* datagrams than one batch)
MaxDatagrams == 4
MaxPackets == 3
PACKETS_PER_BATCH == 2
\* packages the channel holds, where the channel is a bounded one
ChannelCapacity == 2

(***************************************************************************)
(* Accounts packages.  kind is the AccountsPackageKind: "EAH" is           *)
(* EpochAccountsHash, "FS" is Snapshot(FullSnapshot), "IS" is              *)
(* Snapshot(IncrementalSnapshot(base)); base is 0 for the other kinds.     *)
(***************************************************************************)
\* expected_capitalization is the bank's capitalization at the package's slot; the
\* model lets it be the slot number
new(package_kind, slot, base, alg) ==
    [kind |-> package_kind, slot |-> slot, base |-> base, alg |-> alg,
     expected_capitalization |-> slot]

new_eah(slot) == new("EAH", slot, 0, "Merkle")

new_fss(slot) == new("FS", slot, 0, "Merkle")

new_iss(slot, base) == new("IS", slot, base, "Merkle")

\* placeholder where the code has no package (None, or a moved-out value)
NoPackage == new("None", 0, 0, "Merkle")

\* every package the selector is tried on
Packages ==
    {new_eah(s) : s \in 1..MaxSlot} \cup {new_fss(s) : s \in 1..MaxSlot}
        \cup UNION {{new_iss(s, b) : b \in 1..(s - 1)} : s \in 1..MaxSlot}

RECURSIVE SeqsUpTo(_, _)
SeqsUpTo(S, n) ==
    IF n = 0 THEN {<<>>}
    ELSE LET shorter == SeqsUpTo(S, n - 1)
         IN  shorter \cup {Append(q, x) : q \in {p \in shorter : Len(p) = n - 1}, x \in S}

\* all orders of the elements of a finite set
RECURSIVE Perms(_)
Perms(S) ==
    IF S = {} THEN {<<>>}
    ELSE UNION {{<<x>> \o p : p \in Perms(S \ {x})} : x \in S}

Range(q) == {q[i] : i \in 1..Len(q)}

VARIABLES
    queue,            \* the accounts package channel (sender/receiver pair)
    sel,              \* outcome of the last get_next_accounts_package call
    pc,               \* position of the worker thread
    exit,             \* the shared exit flag
    gen,              \* snapshot controller: should_generate_snapshots()
    cfg,              \* should_generate_snapshots() of the config read this iteration
    accounts_hashes,  \* accounts db: slot -> (full accounts hash, capitalization)
    incremental_accounts_hashes,  \* accounts db: slot -> (incremental hash, cap.)
    ops,              \* accounts db operations called, per package handled
    handled,          \* the packages handled and the config read for each
    hres,             \* result of calculate_and_verify_accounts_hash
    pending,          \* pending_snapshot_packages
    metrics,          \* number of loop datapoints submitted
    fatal,            \* message of the panic that ended the worker, "" if none
    up                \* the upstream: last slot sent, last full snapshot slot, sends,
                      \* and the packages sent where the upstream keeps track of them

vars == <<queue, sel, pc, exit, gen, cfg, accounts_hashes, incremental_accounts_hashes,
          ops, handled, hres, pending, metrics, fatal, up>>

loopVars == <<pc, exit, gen, cfg, accounts_hashes, incremental_accounts_hashes, ops,
              handled, hres, pending, metrics, fatal, up>>

\* the accounts db's two hash caches
dbVars == <<accounts_hashes, incremental_accounts_hashes>>

(***************************************************************************)
(* snapshot_package::cmp_accounts_packages_by_priority: -1, 0 or 1 for     *)
(* Less, Equal, Greater.                                                   *)
(***************************************************************************)
KindRank(k) == IF k = "EAH" THEN 3 ELSE IF k = "FS" THEN 2 ELSE 1

Cmp(x, y) == IF x < y THEN -1 ELSE IF x > y THEN 1 ELSE 0

\* variant that compares the base slots of two incremental snapshots before
\* their slots
cmp_base_slot_first(a, b) ==
    IF KindRank(a.kind) # KindRank(b.kind) THEN Cmp(KindRank(a.kind), KindRank(b.kind))
    ELSE IF a.base # b.base THEN Cmp(a.base, b.base)
    ELSE Cmp(a.slot, b.slot)

cmp_accounts_packages_by_priority(a, b) ==
    IF KindRank(a.kind) # KindRank(b.kind) THEN Cmp(KindRank(a.kind), KindRank(b.kind))
    ELSE IF a.slot # b.slot THEN Cmp(a.slot, b.slot)
    ELSE Cmp(a.base, b.base)

Le(a, b) == cmp_accounts_packages_by_priority(a, b) <= 0

(***************************************************************************)
(* get_next_accounts_package.                                              *)
(***************************************************************************)
num_eah_packages(B) == Cardinality({i \in 1..Len(B) : B[i].kind = "EAH"})

\* variant that takes the two packages that arrived last, unsorted
SelectNthLastArrived(B, yi, zi) == yi = Len(B) - 1 /\ zi = Len(B)

\* select_nth_unstable_by(len - 2, cmp): index yi ends at position len - 2 and
\* index zi at position len - 1; everything before them compares <= B[yi]
SelectNth(B, yi, zi) ==
    /\ yi # zi
    /\ Le(B[yi], B[zi])
    /\ \A k \in 1..Len(B) : k \notin {yi, zi} => Le(B[k], B[yi])

\* variants of the tie-break condition: the slot comparison left out, and the
\* tie-break left out altogether
HandleYFirstAnySlot(y, z) == z.kind = "EAH" /\ y.kind = "FS"

HandleYFirstNever(y, z) == FALSE

\* the condition under which `y` is handled before `z`
HandleYFirst(y, z) == z.kind = "EAH" /\ y.kind = "FS" /\ y.slot < z.slot

\* variants of the re-enqueue filter: GREATER-OR-EQUAL, and off by one slot
ShouldReEnqueueGe(p, handled_slot) == p.slot >= handled_slot

ShouldReEnqueueSkip(p, handled_slot) == p.slot > handled_slot + 1

\* variant of the filter that sends every remaining package back
ShouldReEnqueueAll(p, handled_slot) == TRUE

\* the filter of the re-enqueue loop
ShouldReEnqueue(p, handled_slot) == p.slot > handled_slot

SelNone == [status |-> "none", drained |-> <<>>, y |-> NoPackage, z |-> NoPackage,
            pkg |-> NoPackage, n_out |-> 0, n_re |-> 0, requeued |-> <<>>]

SelInit == [SelNone EXCEPT !.status = "init"]

\* the outcomes of the call on a channel content B of two packages or more:
\* the package chosen, the counters and the packages sent back, in their order
GetNextMany(B) ==
    UNION {
      UNION {
        LET y == B[yi]
            z == B[zi]
            first == HandleYFirst(y, z)
            chosen == IF first THEN y ELSE z
            \* the vector after the pops: the unordered front, then y or z
            lastIdx == IF first THEN zi ELSE yi
            front == {k \in 1..Len(B) : k \notin {yi, zi}
                                         /\ ShouldReEnqueue(B[k], chosen.slot)}
            tail == IF ShouldReEnqueue(B[lastIdx], chosen.slot)
                    THEN <<B[lastIdx]>> ELSE <<>>
        IN  {[status |-> "some", drained |-> B, y |-> y, z |-> z, pkg |-> chosen,
              n_out |-> Len(B),
              n_re |-> Len(ord) + Len(tail),
              requeued |-> [i \in 1..Len(ord) |-> B[ord[i]]] \o tail] :
             ord \in Perms(front)} :
        zi \in {k \in 1..Len(B) : SelectNth(B, yi, k)}} :
      yi \in 1..Len(B)}

\* variant of the single-package arm that sends the package back as well
GetNextOneResent(B) ==
    [SelNone EXCEPT !.status = "some", !.drained = B, !.pkg = B[1],
                    !.n_out = 1, !.n_re = 1, !.requeued = B]

\* the arm for a single outstanding package: Some((package, 1, 0))
GetNextOne(B) ==
    [SelNone EXCEPT !.status = "some", !.drained = B, !.pkg = B[1],
                    !.n_out = 1, !.n_re = 0]

\* variant with the assertion compiled out
EahAssertionOff(B) == TRUE

\* assert!(num_eah_packages <= 1)
EahAssertion(B) == num_eah_packages(B) <= 1

\* the outcomes of the call once try_iter().collect() has taken the content B
\* of the channel: the match on the length, the assertion, the selection
Selected(B) ==
    IF Len(B) = 0 THEN {SelNone}
    ELSE IF Len(B) = 1 THEN {GetNextOne(B)}
    ELSE IF ~EahAssertion(B) THEN {[SelNone EXCEPT !.status = "assert", !.drained = B]}
    ELSE GetNextMany(B)

\* the whole call in one step: the channel is emptied and the packages sent
\* back are its new content
get_next_accounts_package ==
    \E s \in Selected(queue) :
        /\ sel' = s
        /\ queue' = s.requeued

(***************************************************************************)
(* The result of calculate_and_verify_accounts_hash: the                   *)
(* MerkleOrLatticeAccountsHash and the optional persistence record.        *)
(***************************************************************************)
NoHash == [kind |-> "none", slot |-> 0]

\* MerkleOrLatticeAccountsHash::Lattice
LatticeHash == [kind |-> "Lattice", slot |-> 0]

\* None of Option<BankIncrementalSnapshotPersistence>
NoPersistence ==
    [some |-> FALSE, full_slot |-> 0, full_hash |-> NoHash, full_capitalization |-> 0,
     incremental_hash |-> NoHash, incremental_capitalization |-> 0]

NoResult == [accounts_hash |-> NoHash, persistence |-> NoPersistence]

(***************************************************************************)
(* The selector on its own, as the unit tests call it: any channel content *)
(* up to MaxQueue packages, then successive calls with no arrivals.        *)
(***************************************************************************)
\* the state of the service when the worker thread starts; snapshot generation
\* is enabled and no action below changes it
LoopInit ==
    /\ pc = "top"
    /\ exit = FALSE
    /\ gen = TRUE
    /\ cfg = TRUE
    /\ accounts_hashes = <<>>
    /\ incremental_accounts_hashes = <<>>
    /\ ops = <<>>
    /\ handled = <<>>
    /\ hres = NoResult
    /\ pending = <<>>
    /\ metrics = 0
    /\ fatal = ""
    /\ up = [slot |-> 0, full |-> 0, sends |-> 0, sent |-> <<>>]

InitSel ==
    /\ queue \in SeqsUpTo(Packages, MaxQueue)
    /\ sel = SelInit
    /\ LoopInit

TestCall ==
    /\ sel.status # "assert"
    /\ get_next_accounts_package
    /\ UNCHANGED loopVars

NextSel == TestCall

SpecSel == InitSel /\ [][NextSel]_vars

(***************************************************************************)
(* The selector called again and again on a channel nobody sends to, as    *)
(* the unit tests do until they get None; `handled` keeps the packages the *)
(* calls returned.                                                         *)
(***************************************************************************)
RepeatedCall ==
    /\ sel.status # "assert"
    /\ get_next_accounts_package
    /\ handled' = IF sel'.status = "some"
                  THEN Append(handled, [package |-> sel'.pkg,
                                        should_generate_snapshots |-> gen])
                  ELSE handled
    /\ UNCHANGED <<pc, exit, gen, cfg, dbVars, ops, hres, pending, metrics, fatal, up>>

NextDrain == RepeatedCall

SpecDrain == InitSel /\ [][NextDrain]_vars

\* the caller goes on calling
SpecDrainFair == SpecDrain /\ WF_vars(RepeatedCall)

(***************************************************************************)
(* The comparator on its own: any three packages a, b, c, compared in      *)
(* pairs.                                                                  *)
(***************************************************************************)
CmpPackages ==
    {new_eah(s) : s \in 1..MaxCmpSlot} \cup {new_fss(s) : s \in 1..MaxCmpSlot}
        \cup UNION {{new_iss(s, b) : b \in 1..(s - 1)} : s \in 1..MaxCmpSlot}

InitCmp ==
    /\ queue \in {<<a, b, c>> : a \in CmpPackages, b \in CmpPackages, c \in CmpPackages}
    /\ sel = SelInit
    /\ LoopInit

Compare ==
    /\ pc = "top"
    /\ pc' = "compared"
    /\ sel' = [status |-> "compared",
               ab |-> cmp_accounts_packages_by_priority(queue[1], queue[2]),
               ba |-> cmp_accounts_packages_by_priority(queue[2], queue[1]),
               bc |-> cmp_accounts_packages_by_priority(queue[2], queue[3]),
               ac |-> cmp_accounts_packages_by_priority(queue[1], queue[3]),
               aa |-> cmp_accounts_packages_by_priority(queue[1], queue[1])]
    /\ UNCHANGED <<queue, exit, gen, cfg, dbVars, ops, handled, hres, pending, metrics,
                   fatal, up>>

NextCmp == Compare

SpecCmp == InitCmp /\ [][NextCmp]_vars

(***************************************************************************)
(* The two unit-test scenarios: the channel is populated in a shuffled     *)
(* order, then get_next_accounts_package is called until it returns None.  *)
(***************************************************************************)
ScenarioA ==
    <<new_fss(100), new_iss(110, 100), new_eah(200), new_iss(210, 100), new_fss(300),
      new_iss(310, 300), new_fss(400), new_iss(410, 400), new_iss(420, 400)>>

ScenarioB ==
    <<new_fss(100), new_iss(110, 100), new_eah(200), new_iss(210, 100),
      new_iss(220, 100)>>

Reverse(q) == [i \in 1..Len(q) |-> q[Len(q) + 1 - i]]

Rotations(q) ==
    {[i \in 1..Len(q) |-> q[((i + k - 1) % Len(q)) + 1]] : k \in 0..(Len(q) - 1)}

\* the arrival orders tried for scenario A: every rotation of the listed order
\* and of its reverse (every later call sees its survivors in every order)
OrdersA == Rotations(ScenarioA) \cup Rotations(Reverse(ScenarioA))

\* the arrival orders tried for scenario B: all of them
OrdersB == {[i \in 1..Len(ScenarioB) |-> ScenarioB[o[i]]] : o \in Perms(1..Len(ScenarioB))}

InitA ==
    /\ queue \in OrdersA
    /\ sel = SelInit
    /\ LoopInit

InitB ==
    /\ queue \in OrdersB
    /\ sel = SelInit
    /\ LoopInit

SpecA == InitA /\ [][NextSel]_vars

SpecB == InitB /\ [][NextSel]_vars

(***************************************************************************)
(* The accounts db: its cache of full accounts hashes and its cache of     *)
(* incremental accounts hashes, each a function from slots.                *)
(***************************************************************************)
\* the entry (hash, capitalization) a cache holds for a slot
Store(hashes, slot, hash, capitalization) ==
    [s \in (DOMAIN hashes) \cup {slot} |->
        IF s = slot THEN [hash |-> hash, capitalization |-> capitalization]
        ELSE hashes[s]]

\* update_accounts_hash(.., slot, ..) computes the full accounts hash and the
\* lamports of the storages and stores them for slot
update_accounts_hash(hashes, slot, hash, lamports) == Store(hashes, slot, hash, lamports)

\* update_incremental_accounts_hash(.., slot, ..) does so for the incremental hash
update_incremental_accounts_hash(hashes, slot, hash, lamports) ==
    Store(hashes, slot, hash, lamports)

\* get_accounts_hash(slot): Option<(AccountsHash, capitalization)>
get_accounts_hash(hashes, slot) ==
    IF slot \in DOMAIN hashes
    THEN [some |-> TRUE, hash |-> hashes[slot].hash,
          capitalization |-> hashes[slot].capitalization]
    ELSE [some |-> FALSE, hash |-> NoHash, capitalization |-> 0]

\* AccountsDb::purge_old_accounts_hashes(slot) removes the hashes of older slots
db_purge_old_accounts_hashes(hashes, slot) ==
    [s \in {t \in DOMAIN hashes : t >= slot} |-> hashes[s]]

\* the accounts hash the db computes from the storages of a package
AccountsHashOf(package) == [kind |-> "Full", slot |-> package.slot]

IncrementalAccountsHashOf(package) == [kind |-> "Incremental", slot |-> package.slot]

\* the lamports a hash calculation may return for a package
Lamports(package) ==
    {package.expected_capitalization, package.expected_capitalization + 1}

\* one call of an accounts db operation, with the CalcAccountsHashConfig flags
\* use_bg_thread_pool and store_detailed_debug_info_on_failure where it has them
DbOp(op, slot, use_bg_thread_pool, store_detailed_debug_info_on_failure) ==
    [op |-> op, slot |-> slot, use_bg_thread_pool |-> use_bg_thread_pool,
     store_detailed_debug_info_on_failure |-> store_detailed_debug_info_on_failure]

(***************************************************************************)
(* The upstream: sends packages in increasing slot order; an incremental   *)
(* snapshot package is based on the last full snapshot package sent.       *)
(***************************************************************************)
UpstreamSend ==
    /\ up.sends < MaxSends
    /\ \E slot \in {up.slot, up.slot + 1} \ {0}, kind \in {"EAH", "FS", "IS"} :
         /\ kind = "IS" => up.full # 0
         /\ queue' = Append(queue, new(kind, slot, IF kind = "IS" THEN up.full ELSE 0,
                                       "Merkle"))
         /\ up' = [slot |-> slot, full |-> IF kind = "FS" THEN slot ELSE up.full,
                   sends |-> up.sends + 1, sent |-> up.sent]
    /\ UNCHANGED <<sel, pc, exit, gen, cfg, dbVars, ops, handled, hres, pending,
                   metrics, fatal>>

\* the upstream that makes one request per kind and slot at most: as
\* UpstreamSend, and a package of a kind only for a slot after the last one of
\* that kind; it keeps the packages it has sent
UpstreamSendOnce ==
    /\ up.sends < MaxSends
    /\ \E slot \in {up.slot, up.slot + 1} \ {0}, kind \in {"EAH", "FS", "IS"} :
         /\ kind = "IS" => up.full # 0
         /\ \A i \in 1..Len(up.sent) : up.sent[i].kind = kind => up.sent[i].slot < slot
         /\ LET package == new(kind, slot, IF kind = "IS" THEN up.full ELSE 0, "Merkle")
            IN  /\ queue' = Append(queue, package)
                /\ up' = [slot |-> slot,
                          full |-> IF kind = "FS" THEN slot ELSE up.full,
                          sends |-> up.sends + 1, sent |-> Append(up.sent, package)]
    /\ UNCHANGED <<sel, pc, exit, gen, cfg, dbVars, ops, handled, hres, pending,
                   metrics, fatal>>

\* an upstream under no contract: any kind, either algorithm, any base slot
UpstreamSendAny ==
    /\ up.sends < MaxSendsAny
    /\ \E slot \in {up.slot, up.slot + 1} \ {0}, kind \in {"EAH", "FS", "IS"},
          alg \in {"Merkle", "Lattice"}, base \in 1..MaxSendsAny :
         /\ base <= slot
         /\ kind # "IS" => base = 1
         /\ queue' = Append(queue, new(kind, slot, IF kind = "IS" THEN base ELSE 0, alg))
         /\ up' = [slot |-> slot, full |-> IF kind = "FS" THEN slot ELSE up.full,
                   sends |-> up.sends + 1, sent |-> up.sent]
    /\ UNCHANGED <<sel, pc, exit, gen, cfg, dbVars, ops, handled, hres, pending,
                   metrics, fatal>>

\* another thread of the validator sets the exit flag
SetExit ==
    /\ ~exit
    /\ exit' = TRUE
    /\ UNCHANGED <<queue, sel, pc, gen, cfg, dbVars, ops, handled, hres, pending,
                   metrics, fatal, up>>

\* the snapshot controller's config changes: should_generate_snapshots() flips
SetSnapshotConfig ==
    /\ gen' = ~gen
    /\ UNCHANGED <<queue, sel, pc, exit, cfg, dbVars, ops, handled, hres, pending,
                   metrics, fatal, up>>

(***************************************************************************)
(* The worker loop of AccountsHashVerifier::new.                           *)
(***************************************************************************)
\* if exit.load() { break }
LoopExit ==
    /\ pc = "top"
    /\ exit
    /\ pc' = "stopped"
    /\ UNCHANGED <<queue, sel, exit, gen, cfg, dbVars, ops, handled, hres, pending,
                   metrics, fatal, up>>

\* variant of process_accounts_package that purges before it hashes
process_accounts_package_purges_first == <<"purge", "hash", "submit">>

\* the order of the three calls of process_accounts_package
process_accounts_package == <<"hash", "purge", "submit">>

\* the position after step s of process_accounts_package; after the last one
\* the function returns Ok and the loop goes on to its datapoint
StepAfter(s) ==
    LET i == CHOOSE k \in 1..Len(process_accounts_package) :
                 process_accounts_package[k] = s
    IN  IF i < Len(process_accounts_package) THEN process_accounts_package[i + 1]
        ELSE "datapoint"

\* variant of the let-else without its `continue`
AfterSelectFallsThrough(status) ==
    IF status = "some" THEN "hash" ELSE IF status = "assert" THEN "panicked" ELSE "metrics"

\* where the loop goes after get_next_accounts_package: on to the handling of
\* the package, back to the top after the sleep, or out by the failed assertion
AfterSelect(status) ==
    IF status = "some" THEN process_accounts_package[1]
    ELSE IF status = "assert" THEN "panicked" ELSE "top"

\* variant in which the config is read once, before the loop
snapshot_config_read_once == cfg

\* snapshot_controller.snapshot_config(), as far as the worker uses it
snapshot_config == gen

LoopTop ==
    /\ pc = "top"
    /\ ~exit
    /\ get_next_accounts_package
    /\ pc' = AfterSelect(sel'.status)
    /\ cfg' = IF sel'.status = "some" THEN snapshot_config ELSE cfg
    /\ handled' = IF sel'.status = "some"
                  THEN Append(handled, [package |-> sel'.pkg,
                                        should_generate_snapshots |-> gen])
                  ELSE handled
    /\ ops' = IF sel'.status = "some" THEN Append(ops, <<>>) ELSE ops
    /\ fatal' = IF sel'.status = "assert" THEN "Only a single EAH accounts package"
                ELSE fatal
    /\ UNCHANGED <<exit, gen, dbVars, hres, pending, metrics, up>>

\* the log of database calls with calls made for the package being handled
Logged(calls) == [ops EXCEPT ![Len(ops)] = @ \o calls]

\* variant of the panic that is caught, the loop going on
PanicGoesOn(message) ==
    /\ pc' = "top"
    /\ fatal' = message

\* the panic of a step of the worker thread
Panic(message) ==
    /\ pc' = "panicked"
    /\ fatal' = message

\* _calculate_full_accounts_hash when the lamports differ from the expected
\* capitalization: the hash is calculated once more, then the thread panics
FullMismatch(package, lamports) ==
    /\ accounts_hashes' = update_accounts_hash(accounts_hashes, package.slot,
                                               AccountsHashOf(package), lamports)
    /\ ops' = Logged(<<DbOp("update_accounts_hash", package.slot, TRUE, FALSE),
                       DbOp("calculate_accounts_hash", package.slot, FALSE, TRUE)>>)
    /\ Panic("accounts hash capitalization mismatch")
    /\ UNCHANGED <<incremental_accounts_hashes, hres>>

\* _calculate_full_accounts_hash otherwise: (AccountsHash, None); the package
\* carries no accounts_hash_for_testing
FullOk(package, lamports) ==
    /\ accounts_hashes' = update_accounts_hash(accounts_hashes, package.slot,
                                               AccountsHashOf(package), lamports)
    /\ ops' = Logged(<<DbOp("update_accounts_hash", package.slot, TRUE, FALSE)>>)
    /\ hres' = [accounts_hash |-> AccountsHashOf(package), persistence |-> NoPersistence]
    /\ pc' = StepAfter("hash")
    /\ UNCHANGED <<incremental_accounts_hashes, fatal>>

\* variant of the full arm that does not compare the lamports
calculate_full_accounts_hash_unverified(package, lamports) == FullOk(package, lamports)

calculate_full_accounts_hash(package, lamports) ==
    IF package.expected_capitalization # lamports
    THEN FullMismatch(package, lamports)
    ELSE FullOk(package, lamports)

\* variant of the persistence record that mixes up the two hashes
PersistenceMixedUp(base_slot, base, incremental_hash, incremental_capitalization) ==
    [some |-> TRUE, full_slot |-> base_slot, full_hash |-> incremental_hash,
     full_capitalization |-> incremental_capitalization,
     incremental_hash |-> incremental_hash,
     incremental_capitalization |-> incremental_capitalization]

\* BankIncrementalSnapshotPersistence { .. } from the base entry and the
\* incremental hash and capitalization
Persistence(base_slot, base, incremental_hash, incremental_capitalization) ==
    [some |-> TRUE, full_slot |-> base_slot, full_hash |-> base.hash,
     full_capitalization |-> base.capitalization,
     incremental_hash |-> incremental_hash,
     incremental_capitalization |-> incremental_capitalization]

\* the incremental arm when get_accounts_hash(base_slot) is None: the panic,
\* whose message reads both caches
IncrementalMissingBase(package) ==
    /\ ops' = Logged(<<DbOp("get_accounts_hash", package.base, FALSE, FALSE),
                       DbOp("get_accounts_hashes", 0, FALSE, FALSE),
                       DbOp("get_incremental_accounts_hashes", 0, FALSE, FALSE)>>)
    /\ Panic("incremental snapshot requires accounts hash")
    /\ UNCHANGED <<dbVars, hres>>

\* the incremental arm when it is Some: _calculate_incremental_accounts_hash and
\* the persistence record
IncrementalOk(package, lamports) ==
    LET base == get_accounts_hash(accounts_hashes, package.base)
    IN  /\ incremental_accounts_hashes' =
             update_incremental_accounts_hash(incremental_accounts_hashes, package.slot,
                                              IncrementalAccountsHashOf(package), lamports)
        /\ ops' = Logged(<<DbOp("get_accounts_hash", package.base, FALSE, FALSE),
                           DbOp("update_incremental_accounts_hash", package.slot,
                                TRUE, FALSE)>>)
        /\ hres' = [accounts_hash |-> IncrementalAccountsHashOf(package),
                    persistence |-> Persistence(package.base, base,
                                                IncrementalAccountsHashOf(package),
                                                lamports)]
        /\ pc' = StepAfter("hash")
        /\ UNCHANGED <<accounts_hashes, fatal>>

\* variant of the incremental arm that hashes before it looks up the base
calculate_incremental_accounts_hash_first(package, lamports) ==
    IF get_accounts_hash(accounts_hashes, package.base).some
    THEN IncrementalOk(package, lamports)
    ELSE /\ incremental_accounts_hashes' =
              update_incremental_accounts_hash(incremental_accounts_hashes, package.slot,
                                               IncrementalAccountsHashOf(package),
                                               lamports)
         /\ ops' = Logged(<<DbOp("update_incremental_accounts_hash", package.slot,
                                 TRUE, FALSE),
                            DbOp("get_accounts_hash", package.base, FALSE, FALSE)>>)
         /\ Panic("incremental snapshot requires accounts hash")
         /\ UNCHANGED <<accounts_hashes, hres>>

\* variant of the incremental arm that verifies the capitalization as well
calculate_incremental_accounts_hash_verified(package, lamports) ==
    IF ~get_accounts_hash(accounts_hashes, package.base).some
    THEN IncrementalMissingBase(package)
    ELSE IF package.expected_capitalization # lamports
    THEN /\ ops' = Logged(<<DbOp("get_accounts_hash", package.base, FALSE, FALSE),
                            DbOp("update_incremental_accounts_hash", package.slot,
                                 TRUE, FALSE),
                            DbOp("calculate_accounts_hash", package.slot, FALSE, TRUE)>>)
         /\ Panic("accounts hash capitalization mismatch")
         /\ UNCHANGED <<dbVars, hres>>
    ELSE IncrementalOk(package, lamports)

calculate_incremental_accounts_hash(package, lamports) ==
    IF get_accounts_hash(accounts_hashes, package.base).some
    THEN IncrementalOk(package, lamports)
    ELSE IncrementalMissingBase(package)

\* variant of the algorithm match without the short-circuit
is_lattice_never(package) == FALSE

\* the match on accounts_hash_algorithm takes its Lattice arm
is_lattice(package) == package.alg = "Lattice"

\* calculate_and_verify_accounts_hash, the first call of process_accounts_package;
\* lamports: what the db's hash calculation returns as the capitalization
calculate_and_verify_accounts_hash(package, lamports) ==
    IF is_lattice(package)
    THEN /\ hres' = [accounts_hash |-> LatticeHash, persistence |-> NoPersistence]
         /\ pc' = StepAfter("hash")
         /\ UNCHANGED <<dbVars, ops, fatal>>
    ELSE IF package.kind = "EAH"
    THEN /\ Panic("EAH is removed")
         /\ UNCHANGED <<dbVars, ops, hres>>
    ELSE IF package.kind = "FS"
    THEN calculate_full_accounts_hash(package, lamports)
    ELSE calculate_incremental_accounts_hash(package, lamports)

\* every path of calculate_and_verify_accounts_hash returns Ok or panics, so the
\* `if let Err(err) = result` arm of the loop has no step here
Hash ==
    /\ pc = "hash"
    /\ \E lamports \in Lamports(sel.pkg) :
         calculate_and_verify_accounts_hash(sel.pkg, lamports)
    /\ UNCHANGED <<queue, sel, exit, gen, cfg, handled, pending, metrics, up>>

\* variants: purge after every package, and purge after full packages only
should_purge_always(should_generate_snapshots, package_kind) == TRUE

should_purge_full_only(should_generate_snapshots, package_kind) == package_kind = "FS"

\* the match of purge_old_accounts_hashes
should_purge(should_generate_snapshots, package_kind) ==
    IF ~should_generate_snapshots THEN TRUE
    ELSE IF package_kind = "FS" THEN TRUE
    ELSE FALSE

\* variant of the purge that removes the oldest hash instead
PurgedOldest(hashes, should_generate_snapshots, package) ==
    IF should_purge(should_generate_snapshots, package.kind) /\ DOMAIN hashes # {}
    THEN LET oldest == CHOOSE s \in DOMAIN hashes : \A t \in DOMAIN hashes : s <= t
         IN  db_purge_old_accounts_hashes(hashes, oldest + 1)
    ELSE hashes

\* a cache of the accounts db after purge_old_accounts_hashes(package, config)
Purged(hashes, should_generate_snapshots, package) ==
    IF should_purge(should_generate_snapshots, package.kind)
    THEN db_purge_old_accounts_hashes(hashes, package.slot)
    ELSE hashes

purge_old_accounts_hashes ==
    /\ pc = "purge"
    /\ accounts_hashes' = Purged(accounts_hashes, cfg, sel.pkg)
    /\ incremental_accounts_hashes' = Purged(incremental_accounts_hashes, cfg, sel.pkg)
    /\ ops' = IF should_purge(cfg, sel.pkg.kind)
              THEN Logged(<<DbOp("purge_old_accounts_hashes", sel.pkg.slot,
                                   FALSE, FALSE)>>)
              ELSE ops
    /\ pc' = StepAfter("purge")
    /\ UNCHANGED <<queue, sel, exit, gen, cfg, handled, hres, pending, metrics, fatal, up>>

\* SnapshotPackage::new(accounts_package, hash, persistence)
SnapshotPackage(package, result) ==
    [package |-> package, hash |-> result.accounts_hash,
     persistence |-> result.persistence]

\* variant of the kind test that lets every kind through
is_snapshot_any(package_kind) == TRUE

\* matches!(package_kind, AccountsPackageKind::Snapshot(_))
is_snapshot(package_kind) == package_kind \in {"FS", "IS"}

\* variant that puts the snapshot package in front of the pending ones
submit_for_packaging_in_front ==
    /\ pc = "submit"
    /\ pending' = IF is_snapshot(sel.pkg.kind)
                  THEN <<SnapshotPackage(sel.pkg, hres)>> \o pending
                  ELSE pending
    /\ pc' = StepAfter("submit")
    /\ UNCHANGED <<queue, sel, exit, gen, cfg, dbVars, ops, handled, hres, metrics,
                   fatal, up>>

submit_for_packaging ==
    /\ pc = "submit"
    /\ pending' = IF is_snapshot(sel.pkg.kind)
                  THEN Append(pending, SnapshotPackage(sel.pkg, hres))
                  ELSE pending
    /\ pc' = StepAfter("submit")
    /\ UNCHANGED <<queue, sel, exit, gen, cfg, dbVars, ops, handled, hres, metrics,
                   fatal, up>>

\* process_accounts_package returned Ok: the datapoint, then the next iteration
\* variant of the end of an iteration that looks at the exit flag and leaves
\* without the metrics point
DatapointUnlessExit ==
    /\ pc = "datapoint"
    /\ IF exit THEN pc' = "stopped" /\ UNCHANGED <<metrics, hres>>
       ELSE pc' = "top" /\ metrics' = metrics + 1 /\ hres' = NoResult
    /\ UNCHANGED <<queue, sel, exit, gen, cfg, dbVars, ops, handled, pending, fatal, up>>

Datapoint ==
    /\ pc = "datapoint"
    /\ metrics' = metrics + 1
    /\ hres' = NoResult
    /\ pc' = "top"
    /\ UNCHANGED <<queue, sel, exit, gen, cfg, dbVars, ops, handled, pending, fatal, up>>

Init ==
    /\ queue = <<>>
    /\ sel = SelInit
    /\ LoopInit

Next ==
    \/ UpstreamSend
    \/ SetExit
    \/ LoopExit
    \/ LoopTop
    \/ Hash
    \/ purge_old_accounts_hashes
    \/ submit_for_packaging
    \/ Datapoint

Spec == Init /\ [][Next]_vars

\* the worker loop under any upstream and a snapshot config that changes
NextAll ==
    \/ UpstreamSendAny
    \/ SetSnapshotConfig
    \/ LoopTop
    \/ Hash
    \/ purge_old_accounts_hashes
    \/ submit_for_packaging
    \/ Datapoint

SpecAll == Init /\ [][NextAll]_vars

\* the worker loop under the upstream of one request per kind and slot
NextOnce ==
    \/ UpstreamSendOnce
    \/ LoopTop
    \/ Hash
    \/ purge_old_accounts_hashes
    \/ submit_for_packaging
    \/ Datapoint

SpecOnce == Init /\ [][NextOnce]_vars

\* the same upstream and worker, with the snapshot config changing at any time
NextOnceAnyConfig ==
    \/ UpstreamSendOnce
    \/ SetSnapshotConfig
    \/ LoopTop
    \/ Hash
    \/ purge_old_accounts_hashes
    \/ submit_for_packaging
    \/ Datapoint

SpecOnceAnyConfig == Init /\ [][NextOnceAnyConfig]_vars

(***************************************************************************)
(* The worker loop step by step, on a bounded channel: the load of the     *)
(* exit flag, the drain of the channel and each try_send of the re-enqueue *)
(* are steps of their own, and the other threads run in between.           *)
(***************************************************************************)
\* the upstream sends when the channel has room
UpstreamSendBounded ==
    /\ Len(queue) < ChannelCapacity
    /\ UpstreamSend

\* variant of the load that is skipped: the loop never looks at the flag
ExitLoadSkipped ==
    /\ pc = "top"
    /\ pc' = "select"
    /\ UNCHANGED <<queue, sel, exit, gen, cfg, dbVars, ops, handled, hres, pending,
                   metrics, fatal, up>>

\* if exit.load(Ordering::Relaxed) { break }
ExitLoad ==
    /\ pc = "top"
    /\ pc' = IF exit THEN "stopped" ELSE "select"
    /\ UNCHANGED <<queue, sel, exit, gen, cfg, dbVars, ops, handled, hres, pending,
                   metrics, fatal, up>>

\* get_next_accounts_package up to the re-enqueue: the channel is emptied and
\* the package is chosen; nothing is sent back yet (n_re counts the try_sends)
Drain ==
    /\ pc = "select"
    /\ \E s \in Selected(queue) :
         /\ sel' = [s EXCEPT !.n_re = 0]
         /\ pc' = IF s.status = "some" THEN "reenqueue" ELSE AfterSelect(s.status)
         /\ fatal' = IF s.status = "assert" THEN "Only a single EAH accounts package"
                     ELSE fatal
    /\ queue' = <<>>
    /\ UNCHANGED <<exit, gen, cfg, dbVars, ops, handled, hres, pending, metrics, up>>

\* variant of the failed try_send whose error is dropped
ReEnqueueFailedIgnored ==
    /\ sel' = [sel EXCEPT !.n_re = @ + 1]
    /\ UNCHANGED <<queue, pc, fatal>>

\* try_send returned Err: .expect("re-enqueue accounts package") panics
ReEnqueueFailed ==
    /\ Panic("re-enqueue accounts package")
    /\ UNCHANGED <<queue, sel>>

\* variant of the send that replaces the content of the channel
try_send_in_place_of(channel, package) == <<package>>

\* accounts_package_sender.try_send(accounts_package) on a channel with room
try_send(channel, package) == Append(channel, package)

\* one try_send of the re-enqueue loop
ReEnqueue ==
    /\ pc = "reenqueue"
    /\ sel.n_re < Len(sel.requeued)
    /\ IF Len(queue) < ChannelCapacity
       THEN /\ queue' = try_send(queue, sel.requeued[sel.n_re + 1])
            /\ sel' = [sel EXCEPT !.n_re = @ + 1]
            /\ UNCHANGED <<pc, fatal>>
       ELSE ReEnqueueFailed
    /\ UNCHANGED <<exit, gen, cfg, dbVars, ops, handled, hres, pending, metrics, up>>

\* get_next_accounts_package returns Some: the log line, the config read
Handle ==
    /\ pc = "reenqueue"
    /\ sel.n_re = Len(sel.requeued)
    /\ pc' = process_accounts_package[1]
    /\ cfg' = snapshot_config
    /\ handled' = Append(handled, [package |-> sel.pkg, should_generate_snapshots |-> gen])
    /\ ops' = Append(ops, <<>>)
    /\ UNCHANGED <<queue, sel, exit, gen, dbVars, hres, pending, metrics, fatal, up>>

NextSteps ==
    \/ UpstreamSendBounded
    \/ SetExit
    \/ ExitLoad
    \/ Drain
    \/ ReEnqueue
    \/ Handle
    \/ Hash
    \/ purge_old_accounts_hashes
    \/ submit_for_packaging
    \/ Datapoint

SpecSteps == Init /\ [][NextSteps]_vars

\* the same loop with the upstream that makes one request per kind and slot,
\* so that every package of a run is a value of its own
UpstreamSendOnceBounded ==
    /\ Len(queue) < ChannelCapacity
    /\ UpstreamSendOnce

NextStepsOnce ==
    \/ UpstreamSendOnceBounded
    \/ ExitLoad
    \/ Drain
    \/ ReEnqueue
    \/ Handle
    \/ Hash
    \/ purge_old_accounts_hashes
    \/ submit_for_packaging
    \/ Datapoint

SpecStepsOnce == Init /\ [][NextStepsOnce]_vars

\* the steps of the worker thread
Worker ==
    \/ ExitLoad
    \/ Drain
    \/ ReEnqueue
    \/ Handle
    \/ Hash
    \/ purge_old_accounts_hashes
    \/ submit_for_packaging
    \/ Datapoint

\* the worker thread is scheduled as long as it has a step to take, and each
\* of its steps (a hash computation included) terminates
SpecStepsFair == SpecSteps /\ WF_vars(Worker)

(***************************************************************************)
(* streamer::recvmmsg.  The receive path is a program of its own; in its   *)
(* specification `queue` is the receive queue of the reader socket (the    *)
(* datagrams in arrival order), `pending` the caller's slice of packets as *)
(* the last call left it, `handled` the log of the calls, and `up.sent`    *)
(* the datagrams sent so far.  The other variables stay as at the start.   *)
(***************************************************************************)
Min(a, b) == IF a < b THEN a ELSE b

\* std::mem::size_of::<sockaddr_in>() and size_of::<sockaddr_in6>()
SOCKADDR_IN_SIZE == 16
SOCKADDR_IN6_SIZE == 28

\* u16::to_be / u16::from_be on a little-endian host
swap_bytes(x) == (x % 256) * 256 + (x \div 256)

\* the sockets of the tests that send, two over IPv4 and one over IPv6, each
\* with the size of its datagrams (every datagram fits a packet buffer)
Senders ==
    {[size |-> 2, from |-> [family |-> "V4", ip |-> "127.0.0.1", port |-> 258]],
     [size |-> 1, from |-> [family |-> "V4", ip |-> "127.0.0.1", port |-> 259]],
     [size |-> 2, from |-> [family |-> "V6", ip |-> "::1", port |-> 258]]}

\* Meta::default(): size 0 and the unspecified address
MetaDefault == [size |-> 0, addr |-> [family |-> "V4", ip |-> "0.0.0.0", port |-> 0]]

\* Packet::default(), with an empty buffer
PacketDefault == [meta |-> MetaDefault, data |-> 0]

\* the sockaddr_storage and the msg_namelen the kernel writes for a sender
SockAddrStorage(from) ==
    IF from.family = "V4"
    THEN [ss_family |-> "AF_INET", sin_addr |-> from.ip,
          sin_port |-> swap_bytes(from.port), namelen |-> SOCKADDR_IN_SIZE]
    ELSE [ss_family |-> "AF_INET6", sin_addr |-> from.ip,
          sin_port |-> swap_bytes(from.port), namelen |-> SOCKADDR_IN6_SIZE]

\* libc::recvmmsg(fd, hdrs, vlen, MSG_WAITFORONE, ts) on a socket with
\* datagrams queued: the first vlen of them, or all, in arrival order; each
\* fills a header (msg_len, msg_namelen), an address and the packet's buffer
recvmmsg(sockq, vlen) ==
    LET nrecv == Min(Len(sockq), vlen)
    IN  [nrecv |-> nrecv,
         hdrs  |-> [i \in 1..nrecv |->
                       [msg_len |-> sockq[i].size,
                        msg_namelen |-> SockAddrStorage(sockq[i].from).namelen]],
         addrs |-> [i \in 1..nrecv |-> SockAddrStorage(sockq[i].from)],
         bufs  |-> [i \in 1..nrecv |-> sockq[i].data]]

cast_socket_addr(addr, hdr) ==
    IF addr.ss_family = "AF_INET" /\ hdr.msg_namelen = SOCKADDR_IN_SIZE
    THEN [some |-> TRUE,
          addr |-> [family |-> "V4", ip |-> addr.sin_addr, port |-> swap_bytes(addr.sin_port)]]
    ELSE IF addr.ss_family = "AF_INET6" /\ hdr.msg_namelen = SOCKADDR_IN6_SIZE
    THEN [some |-> TRUE,
          addr |-> [family |-> "V6", ip |-> addr.sin_addr, port |-> swap_bytes(addr.sin_port)]]
    ELSE [some |-> FALSE, addr |-> MetaDefault.addr]

\* variant of the count that leaves the batch limit out
count_of_packets_only(packets) == Len(packets)

\* let count = cmp::min(iovs.len(), packets.len())
count(packets) == Min(PACKETS_PER_BATCH, Len(packets))

\* the packets after the call: the first nrecv get the size and the address
\* of their header, the others are not written
FillPackets(packets, r) ==
    [i \in 1..Len(packets) |->
        IF i <= r.nrecv
        THEN LET a == cast_socket_addr(r.addrs[i], r.hdrs[i])
             IN  [meta |-> [size |-> r.hdrs[i].msg_len,
                            addr |-> IF a.some THEN a.addr ELSE packets[i].meta.addr],
                  data |-> r.bufs[i]]
        ELSE packets[i]]

\* sender.send_to(&data, reader_addr): the datagram joins the receive queue
send_to ==
    /\ up.sends < MaxDatagrams
    /\ \E sender \in Senders :
         LET datagram == [size |-> sender.size, from |-> sender.from, data |-> up.sends + 1]
         IN  /\ queue' = Append(queue, datagram)
             /\ up' = [up EXCEPT !.sends = @ + 1, !.sent = Append(@, datagram)]
    /\ UNCHANGED <<sel, pc, exit, gen, cfg, dbVars, ops, handled, hres, pending, metrics,
                   fatal>>

\* recv_mmsg(&reader, &mut packets) with datagrams queued and a slice of
\* cleared packets
recv_mmsg ==
    /\ queue # <<>>
    /\ \E m \in 1..MaxPackets :
         LET packets == [i \in 1..m |-> PacketDefault]
             r == recvmmsg(queue, count(packets))
         IN  /\ pending' = FillPackets(packets, r)
             /\ queue' = SubSeq(queue, r.nrecv + 1, Len(queue))
             /\ handled' = Append(handled, [k |-> Len(queue), m |-> m, nrecv |-> r.nrecv,
                                            packets |-> pending'])
    /\ UNCHANGED <<sel, pc, exit, gen, cfg, dbVars, ops, hres, metrics, fatal, up>>

InitRecv ==
    /\ queue = <<>>
    /\ sel = SelInit
    /\ LoopInit

NextRecv ==
    \/ send_to
    \/ recv_mmsg

SpecRecv == InitRecv /\ [][NextRecv]_vars

(***************************************************************************)
(* streamer::recvmmsg, the recv_mmsg of the targets other than Linux: one  *)
(* recv_from per packet.  The variables are used as in SpecRecv; `sel` is  *)
(* the reader socket's mode, [nonblocking |-> b], and `handled` holds the  *)
(* record of the last call only.                                           *)
(***************************************************************************)
\* the number of datagrams sent to a socket read by the fallback
MaxFallbackDatagrams == 2

\* socket.recv_from(p.buffer_mut()): the datagram at the head of the receive
\* queue, or an error: the one the environment makes of this receive, or, on
\* an empty queue, WouldBlock of a non-blocking socket and the expiry of the
\* read timeout of a blocking one
recv_from(sockq, nonblocking, fails) ==
    IF fails THEN [ok |-> FALSE, err |-> "Other"]
    ELSE IF sockq = <<>>
    THEN [ok |-> FALSE, err |-> IF nonblocking THEN "WouldBlock" ELSE "TimedOut"]
    ELSE [ok |-> TRUE, err |-> "", nrecv |-> Head(sockq).size, from |-> Head(sockq).from,
          data |-> Head(sockq).data]

\* variant of the guard of the first Err arm that never holds
ErrAfterSomeNever(i) == FALSE

\* Err(_) if i > 0
ErrAfterSome(i) == i > 0

\* the for loop over packets.iter_mut().take(count), from its iteration k on;
\* st is the state of the call: i, the packets, the socket's queue and mode,
\* the outcome of every recv_from so far.  fail_at is the receive that the
\* environment fails (none if beyond count) and switch_fails says whether
\* set_nonblocking(true) returns an error.
RECURSIVE FallbackLoop(_, _, _, _)
FallbackLoop(st, k, fail_at, switch_fails) ==
    IF k > count(st.packets)
    THEN [st EXCEPT !.ret = [ok |-> TRUE, n |-> st.i, err |-> ""]]
    ELSE LET r == recv_from(st.sockq, st.nonblocking, k = fail_at)
             tried == [st EXCEPT !.trace = Append(@, IF r.ok THEN "Ok" ELSE r.err)]
         IN  IF ~r.ok
             THEN IF ErrAfterSome(st.i)
                  THEN [tried EXCEPT !.ret = [ok |-> TRUE, n |-> st.i, err |-> ""]]
                  ELSE [tried EXCEPT !.ret = [ok |-> FALSE, n |-> 0, err |-> r.err]]
             ELSE LET got == [tried EXCEPT
                                !.packets[k] = [meta |-> [size |-> r.nrecv, addr |-> r.from],
                                                data |-> r.data],
                                !.sockq = Tail(@)]
                  IN  IF st.i = 0 /\ switch_fails
                      THEN [got EXCEPT !.switches = @ + 1,
                                       !.ret = [ok |-> FALSE, n |-> 0,
                                                err |-> "set_nonblocking"]]
                      ELSE FallbackLoop(
                               [got EXCEPT !.i = @ + 1,
                                           !.switches = IF st.i = 0 THEN @ + 1 ELSE @,
                                           !.nonblocking = IF st.i = 0 THEN TRUE ELSE @],
                               k + 1, fail_at, switch_fails)

\* recv_mmsg(&socket, &mut packets) of the fallback, on a slice of m cleared
\* packets
recv_mmsg_fallback ==
    \E m \in 1..MaxPackets :
      LET packets == [j \in 1..m |-> PacketDefault]
      IN  \E fail_at \in 1..(count(packets) + 1), switch_fails \in BOOLEAN :
            LET st == FallbackLoop([i |-> 0, packets |-> packets, sockq |-> queue,
                                    nonblocking |-> sel.nonblocking, switches |-> 0,
                                    trace |-> <<>>,
                                    ret |-> [ok |-> FALSE, n |-> 0, err |-> ""]],
                                   1, fail_at, switch_fails)
            IN  /\ pending' = st.packets
                /\ queue' = st.sockq
                /\ sel' = [nonblocking |-> st.nonblocking]
                /\ handled' = <<[m |-> m, before |-> queue, after |-> st.sockq,
                                 was_nonblocking |-> sel.nonblocking,
                                 is_nonblocking |-> st.nonblocking,
                                 ret |-> st.ret, trace |-> st.trace,
                                 switches |-> st.switches, packets |-> st.packets]>>
                /\ UNCHANGED <<pc, exit, gen, cfg, dbVars, ops, hres, metrics, fatal, up>>

\* sender.send_to(&data, reader_addr) to the socket the fallback reads
send_to_fallback ==
    /\ up.sends < MaxFallbackDatagrams
    /\ \E sender \in Senders :
         LET datagram == [size |-> sender.size, from |-> sender.from, data |-> up.sends + 1]
         IN  /\ queue' = Append(queue, datagram)
             /\ up' = [up EXCEPT !.sends = @ + 1, !.sent = Append(@, datagram)]
    /\ UNCHANGED <<sel, pc, exit, gen, cfg, dbVars, ops, handled, hres, pending, metrics,
                   fatal>>

\* reader.set_nonblocking(false) by the caller between two calls
set_nonblocking_false ==
    /\ sel.nonblocking
    /\ sel' = [nonblocking |-> FALSE]
    /\ UNCHANGED <<queue, pc, exit, gen, cfg, dbVars, ops, handled, hres, pending,
                   metrics, fatal, up>>

InitFallback ==
    /\ queue = <<>>
    /\ sel = [nonblocking |-> FALSE]
    /\ LoopInit

NextFallback ==
    \/ send_to_fallback
    \/ set_nonblocking_false
    \/ recv_mmsg_fallback

SpecFallback == InitFallback /\ [][NextFallback]_vars

(***************************************************************************)
(* The worker loop with a hasher that can fail: process_accounts_package   *)
(* returns the Err of calculate_and_verify_accounts_hash (the `?` of its   *)
(* first statement), as the io::Result of the signature allows.            *)
(***************************************************************************)
\* the hasher returns Err(io): process_accounts_package returns it at once
HasherErr ==
    /\ pc = "hash"
    /\ pc' = "err"
    /\ UNCHANGED <<queue, sel, exit, gen, cfg, dbVars, ops, handled, hres, pending,
                   metrics, fatal, up>>

\* variant of the Err arm that logs the error and goes on with the loop
StopOnErrGoesOn ==
    /\ pc = "err"
    /\ pc' = "top"
    /\ UNCHANGED <<queue, sel, exit, gen, cfg, dbVars, ops, handled, hres, pending,
                   metrics, fatal, up>>

\* if let Err(err) = result: error!, exit.store(true), break
StopOnErr ==
    /\ pc = "err"
    /\ exit' = TRUE
    /\ pc' = "stopped"
    /\ UNCHANGED <<queue, sel, gen, cfg, dbVars, ops, handled, hres, pending,
                   metrics, fatal, up>>

NextErr ==
    \/ UpstreamSendAny
    \/ SetSnapshotConfig
    \/ SetExit
    \/ LoopExit
    \/ LoopTop
    \/ Hash
    \/ HasherErr
    \/ StopOnErr
    \/ purge_old_accounts_hashes
    \/ submit_for_packaging
    \/ Datapoint

SpecErr == Init /\ [][NextErr]_vars

(***************************************************************************)
(* The curator on its own: purge_old_accounts_hashes run twice for one     *)
(* package, from any config and any content of the two hash caches.        *)
(***************************************************************************)
\* the contents a hash cache can have: a hash and a capitalization for some slots
Caches(hash_kind) ==
    UNION {[slots -> {[hash |-> [kind |-> hash_kind, slot |-> 0],
                       capitalization |-> c] : c \in 1..2}] :
           slots \in SUBSET (1..MaxSlot)}

InitCur ==
    /\ \E package \in Packages, generate \in BOOLEAN :
         /\ sel = [SelNone EXCEPT !.status = "some", !.pkg = package, !.n_out = 1]
         /\ handled = <<[package |-> package, should_generate_snapshots |-> generate]>>
         /\ gen = generate
         /\ cfg = generate
    /\ accounts_hashes \in Caches("Full")
    /\ incremental_accounts_hashes \in Caches("Incremental")
    /\ queue = <<>>
    /\ ops = << <<>> >>
    /\ pc = "purge"
    /\ exit = FALSE
    /\ hres = NoResult
    /\ pending = <<>>
    /\ metrics = 0
    /\ fatal = ""
    /\ up = [slot |-> 0, full |-> 0, sends |-> 0, sent |-> <<>>]

\* the second run of the curator for the same package
CuratorAgain ==
    /\ pc = StepAfter("purge")
    /\ accounts_hashes' = Purged(accounts_hashes, cfg, sel.pkg)
    /\ incremental_accounts_hashes' = Purged(incremental_accounts_hashes, cfg, sel.pkg)
    /\ ops' = IF should_purge(cfg, sel.pkg.kind)
              THEN Logged(<<DbOp("purge_old_accounts_hashes", sel.pkg.slot,
                                 FALSE, FALSE)>>)
              ELSE ops
    /\ pc' = "curated"
    /\ UNCHANGED <<queue, sel, exit, gen, cfg, handled, hres, pending, metrics, fatal, up>>

NextCur ==
    \/ purge_old_accounts_hashes
    \/ CuratorAgain

SpecCur == InitCur /\ [][NextCur]_vars

(***************************************************************************)
(* Properties of one get_next_accounts_package call (SpecSel).             *)
(***************************************************************************)
Count(q, p) == Cardinality({i \in 1..Len(q) : q[i] = p})

\* p is priority-maximal among the packages of B other than index skip
MaxExcept(B, i, skip) ==
    \A k \in 1..Len(B) : k # skip => Le(B[k], B[i])

\* the tie-break case of batch B: the highest is an EAH, the second-highest a
\* FullSnapshot with a lower slot; yi is the index of that second-highest
TieBreakAt(B, yi) ==
    \E zi \in 1..Len(B) :
        /\ zi # yi
        /\ MaxExcept(B, zi, 0)
        /\ MaxExcept(B, yi, zi)
        /\ B[zi].kind = "EAH" /\ B[yi].kind = "FS" /\ B[yi].slot < B[zi].slot

TieBreakCase(B) == \E yi \in 1..Len(B) : TieBreakAt(B, yi)

\* C1: the package a call returns is priority-maximal among the drained
\* packages, except in the tie-break case, where it is the second-highest one
C1_ChosenIsMaximal ==
    sel.status = "some" =>
        LET B == sel.drained
        IN  /\ num_eah_packages(B) <= 1
            /\ \E i \in 1..Len(B) :
                 /\ B[i] = sel.pkg
                 /\ IF TieBreakCase(B) THEN TieBreakAt(B, i) ELSE MaxExcept(B, i, 0)

C1_Witness ==
    /\ sel.status = "some"
    /\ Len(sel.drained) = MaxQueue
    /\ TieBreakCase(sel.drained)
    /\ sel.pkg.kind = "FS"
    /\ Len(sel.requeued) = 2
    /\ Len(sel.requeued) < Len(sel.drained) - 1

\* C2: every package a call put back on the queue has a slot strictly greater
\* than the slot of the package it returned, whatever the kinds
C2_RequeuedAreLater ==
    sel.status = "some" =>
        /\ queue = sel.requeued
        /\ \A i \in 1..Len(queue) : queue[i].slot > sel.pkg.slot

C2_Witness ==
    /\ sel.status = "some"
    /\ Len(queue) >= 2
    /\ \E i, j \in 1..Len(queue) : queue[i].kind # queue[j].kind
    /\ \E i \in 1..Len(sel.drained) : sel.drained[i].slot = sel.pkg.slot
                                        /\ sel.drained[i] # sel.pkg

\* C3: a drained package that is neither returned nor put back has a slot <=
\* the returned package's slot: every other drained package with a greater slot
\* is back on the queue, as many times as it was drained
C3_DroppedAreNotLater ==
    sel.status = "some" =>
        \A p \in Range(sel.drained) :
            /\ Count(queue, p) <= Count(sel.drained, p) - (IF p = sel.pkg THEN 1 ELSE 0)
            /\ p.slot > sel.pkg.slot => Count(queue, p) = Count(sel.drained, p)

C3_Witness ==
    /\ sel.status = "some"
    /\ \E p \in Range(sel.drained) : p # sel.pkg /\ Count(queue, p) = 0
    /\ \E p \in Range(sel.drained) : Count(queue, p) = 2

\* C4: with two or more packages drained, when the highest-priority package z is
\* an EAH and the second-highest y a FullSnapshot with a lower slot, y is
\* returned and z is put back on the queue; in every other case z is returned
C4_TieBreak ==
    (sel.status = "some" /\ sel.n_out >= 2) =>
        LET B == sel.drained
        IN  /\ \E yi, zi \in 1..Len(B) :
                 /\ yi # zi /\ B[yi] = sel.y /\ B[zi] = sel.z
                 /\ MaxExcept(B, zi, 0)
                 /\ MaxExcept(B, yi, zi)
            /\ IF sel.z.kind = "EAH" /\ sel.y.kind = "FS" /\ sel.y.slot < sel.z.slot
               THEN /\ sel.pkg = sel.y
                    /\ Count(queue, sel.z) = 1
               ELSE sel.pkg = sel.z

C4_Witness ==
    /\ sel.status = "some"
    /\ sel.n_out = MaxQueue
    /\ sel.z.kind = "EAH" /\ sel.y.kind = "FS" /\ sel.y.slot < sel.z.slot
    /\ sel.pkg = sel.y
    /\ queue = <<sel.z>>

\* C6: with exactly one package on the queue the call returns that package
\* with counters (1, 0) and leaves the queue empty, for every kind and slot
C6_SinglePackage ==
    (sel.status # "init" /\ Len(sel.drained) = 1) =>
        /\ sel.status = "some"
        /\ sel.pkg = sel.drained[1]
        /\ sel.n_out = 1 /\ sel.n_re = 0
        /\ queue = <<>>

C6_Witness ==
    /\ sel.status = "some"
    /\ Len(sel.drained) = 1
    /\ sel.pkg = new_iss(MaxSlot, 1)
    /\ queue = <<>>

\* C7: a drain that observes two or more EAH packages fails the assertion,
\* returning no package and putting none back; every call that returns
\* normally drained at most one EAH package
C7_SingleEah ==
    sel.status # "init" =>
        /\ num_eah_packages(sel.drained) >= 2 <=> sel.status = "assert"
        /\ sel.status = "assert" =>
               /\ sel.pkg = NoPackage
               /\ sel.requeued = <<>>
               /\ queue = <<>>

C7_Witness ==
    /\ sel.status = "assert"
    /\ num_eah_packages(sel.drained) = 2
    /\ Len(sel.drained) = MaxQueue

(***************************************************************************)
(* Properties of the worker loop (Spec) and of the scenarios (SpecA/SpecB).*)
(***************************************************************************)
\* C5: on an empty queue get_next_accounts_package returns None and leaves the
\* queue empty, and that iteration of the loop hashes nothing, purges nothing,
\* pushes nothing, emits no datapoint and goes back to the top of the loop
C5_EmptyQueueIdles ==
    [][(queue = <<>> /\ LoopTop) =>
          /\ sel'.status = "none"
          /\ queue' = <<>>
          /\ pc' = "top"
          /\ UNCHANGED <<dbVars, ops, handled, hres, pending, metrics, fatal, exit>>]_vars

C5_Witness ==
    /\ sel.status = "none"
    /\ pc = "top"
    /\ queue = <<>>
    /\ metrics = 1
    /\ Len(pending) = 1

\* C8: scenario A: successive calls return EAH@200 with 6 re-enqueued, FS@400
\* with 2 re-enqueued, IS(400)@420 with 0 re-enqueued, then None
C8_ScenarioA ==
    /\ sel.status \in {"init", "some", "none"}
    /\ sel.status = "init" => Len(queue) = 9
    /\ sel.status = "some" =>
         \/ sel.n_out = 9 /\ sel.pkg = new_eah(200) /\ sel.n_re = 6 /\ Len(queue) = 6
         \/ sel.n_out = 6 /\ sel.pkg = new_fss(400) /\ sel.n_re = 2 /\ Len(queue) = 2
         \/ sel.n_out = 2 /\ sel.pkg = new_iss(420, 400) /\ sel.n_re = 0 /\ queue = <<>>
    /\ sel.status = "none" => queue = <<>>

C8_Witness ==
    /\ sel.status = "some"
    /\ sel.pkg = new_iss(420, 400)
    /\ sel.drained = <<new_iss(420, 400), new_iss(410, 400)>>
    /\ queue = <<>>

\* C9: scenario B: successive calls return FS@100 with 4 re-enqueued, EAH@200
\* with 2 re-enqueued, IS(100)@220 with 0 re-enqueued, then None
C9_ScenarioB ==
    /\ sel.status \in {"init", "some", "none"}
    /\ sel.status = "init" => Len(queue) = 5
    /\ sel.status = "some" =>
         \/ sel.n_out = 5 /\ sel.pkg = new_fss(100) /\ sel.n_re = 4 /\ Len(queue) = 4
         \/ sel.n_out = 4 /\ sel.pkg = new_eah(200) /\ sel.n_re = 2 /\ Len(queue) = 2
         \/ sel.n_out = 2 /\ sel.pkg = new_iss(220, 100) /\ sel.n_re = 0 /\ queue = <<>>
    /\ sel.status = "none" => queue = <<>>

C9_Witness ==
    /\ sel.status = "some"
    /\ sel.pkg = new_iss(220, 100)
    /\ sel.drained = <<new_iss(210, 100), new_iss(220, 100)>>
    /\ queue = <<>>

\* C10: with snapshot generation enabled and Merkle packages sent in increasing
\* slot order, each incremental one based on the last full one sent, whenever
\* the loop hashes an IncrementalSnapshot(b) package the accounts db still has
\* the accounts hash of slot b: the missing-base-hash panic never happens
C10_BaseHashPresent ==
    /\ fatal # "incremental snapshot requires accounts hash"
    /\ (pc = "hash" /\ sel.pkg.kind = "IS") =>
           get_accounts_hash(accounts_hashes, sel.pkg.base).some

C10_Witness ==
    /\ pc = "hash"
    /\ sel.pkg.kind = "IS"
    /\ DOMAIN accounts_hashes = {sel.pkg.base}
    /\ \E i \in 1..Len(pending) : /\ pending[i].package.kind = "FS"
                                  /\ pending[i].package.slot < sel.pkg.base
    /\ \E i \in 1..Len(sel.drained) : /\ sel.drained[i].kind = "IS"
                                      /\ sel.drained[i].slot < sel.pkg.slot

(***************************************************************************)
(* Properties of the handling of one package: the database calls made for  *)
(* it, and what it leaves in the pending container.                        *)
(***************************************************************************)
\* the database calls logged for the package being handled
CurrentOps == IF ops = <<>> THEN <<>> ELSE ops[Len(ops)]

\* the positions of the calls of operation op in the log o
Calls(o, op) == {i \in 1..Len(o) : o[i].op = op}

\* the packages of snapshot kind among the first n handled
SnapshotsHandled(n) == {i \in 1..n : handled[i].package.kind \in {"FS", "IS"}}

MissingBase == fatal = "incremental snapshot requires accounts hash"

\* C11: under Merkle an incremental snapshot package is hashed only with the
\* hash of its base slot in the cache: update_incremental_accounts_hash is called
\* only after a get_accounts_hash(base_slot) that found it, and when the lookup
\* finds nothing the worker panics with no update_incremental_accounts_hash, no
\* purge and no push for that package.
C11_MissingBasePanics ==
    /\ \A n \in 1..Len(ops) :
         Calls(ops[n], "update_incremental_accounts_hash") # {} =>
            /\ handled[n].package.kind = "IS"
            /\ ops[n][1] = DbOp("get_accounts_hash", handled[n].package.base, FALSE, FALSE)
            /\ Calls(ops[n], "update_incremental_accounts_hash") = {2}
    /\ (pc = "purge" /\ sel.pkg.kind = "IS" /\ sel.pkg.alg = "Merkle") =>
         /\ sel.pkg.base \in DOMAIN accounts_hashes
         /\ sel.pkg.slot \in DOMAIN incremental_accounts_hashes
    /\ MissingBase =>
         /\ pc = "panicked"
         /\ sel.pkg.kind = "IS" /\ sel.pkg.alg = "Merkle"
         /\ sel.pkg.base \notin DOMAIN accounts_hashes
         /\ CurrentOps[1] = DbOp("get_accounts_hash", sel.pkg.base, FALSE, FALSE)
         /\ Calls(CurrentOps, "update_incremental_accounts_hash") = {}
         /\ Calls(CurrentOps, "purge_old_accounts_hashes") = {}
         /\ Len(pending) = Cardinality(SnapshotsHandled(Len(handled) - 1))
         /\ hres = NoResult

\* an incremental package panics for its missing base while the cache holds
\* the hash of another slot, and the earlier full package is in the container
C11_Witness ==
    /\ MissingBase
    /\ accounts_hashes # <<>>
    /\ Len(handled) = 2
    /\ Len(pending) = 1

\* the worker died at the top of its loop, by the assertion of the selector
EahAssertionFailed == pc = "panicked" /\ fatal = "Only a single EAH accounts package"

\* the n-th handled package is past the purge step of its iteration
PurgeStepDone(n) ==
    \/ n < Len(handled)
    \/ n = Len(handled) /\ pc \in {"submit", "datapoint", "top", "stopped"}
    \/ n = Len(handled) /\ EahAssertionFailed

\* the slots purge_old_accounts_hashes was called with for the n-th package
PurgeCalls(n) ==
    [i \in 1..Cardinality(Calls(ops[n], "purge_old_accounts_hashes")) |->
        ops[n][CHOOSE k \in Calls(ops[n], "purge_old_accounts_hashes") :
                  Cardinality({j \in Calls(ops[n], "purge_old_accounts_hashes") : j <= k}) = i
              ].slot]

\* C12: once a package is hashed, purge_old_accounts_hashes(package.slot) is
\* called exactly once if the config read for it does not generate snapshots or
\* if the package is a full snapshot, and not at all otherwise; with generation
\* enabled, an incremental package followed by a full package gives one purge
\* call in all, for the slot of the full package.
C12_CuratorPolicy ==
    /\ \A n \in 1..Len(handled) :
         LET package == handled[n].package
             generate == handled[n].should_generate_snapshots
         IN  /\ ~PurgeStepDone(n) => PurgeCalls(n) = <<>>
             /\ (PurgeStepDone(n) /\ (~generate \/ package.kind = "FS")) =>
                    PurgeCalls(n) = <<package.slot>>
             /\ (PurgeStepDone(n) /\ generate /\ package.kind \in {"IS", "EAH"}) =>
                    PurgeCalls(n) = <<>>
    /\ \A n \in 1..(Len(handled) - 1) :
         (/\ PurgeStepDone(n + 1)
          /\ handled[n].package.kind = "IS" /\ handled[n].should_generate_snapshots
          /\ handled[n + 1].package.kind = "FS"
          /\ handled[n + 1].should_generate_snapshots) =>
            PurgeCalls(n) \o PurgeCalls(n + 1) = <<handled[n + 1].package.slot>>

\* with generation enabled, an incremental and then a full package were handled
C12_Witness ==
    /\ Len(handled) = 2
    /\ pc = "submit"
    /\ handled[1].package.kind = "IS" /\ handled[1].should_generate_snapshots
    /\ handled[2].package.kind = "FS" /\ handled[2].should_generate_snapshots
    /\ Len(ops[1]) + Len(ops[2]) = 2

\* C13: running purge_old_accounts_hashes a second time for the same package
\* leaves both hash caches as the first run left them, whatever the package,
\* the snapshot config and the content of the caches.
C13_CuratorIdempotent == [][CuratorAgain => UNCHANGED dbVars]_vars

\* the curator ran twice with a purge each time, on caches that keep a hash
C13_Witness ==
    /\ pc = "curated"
    /\ Len(ops[1]) = 2
    /\ sel.pkg.slot = MaxSlot
    /\ accounts_hashes # <<>>
    /\ incremental_accounts_hashes # <<>>

\* C14: for a package whose accounts_hash_algorithm is Lattice, of any kind,
\* calculate_and_verify_accounts_hash returns (Lattice, None) without a call of
\* any database operation and without a panic, and both hash caches stay as
\* they were.
C14_LatticeShortCircuit ==
    [][(Hash /\ sel.pkg.alg = "Lattice") =>
          /\ sel.pkg.kind \in {"FS", "IS", "EAH"}
          /\ hres' = [accounts_hash |-> LatticeHash, persistence |-> NoPersistence]
          /\ pc' = "purge"
          /\ ops' = ops
          /\ accounts_hashes' = accounts_hashes
          /\ incremental_accounts_hashes' = incremental_accounts_hashes
          /\ fatal' = fatal /\ fatal = ""]_vars

\* a Lattice incremental package whose base hash is not in the cache and then a
\* Lattice EAH package were hashed, with no database call for either
C14_Witness ==
    /\ Len(handled) = 2
    /\ handled[1].package.kind = "IS" /\ handled[1].package.alg = "Lattice"
    /\ handled[2].package.kind = "EAH" /\ handled[2].package.alg = "Lattice"
    /\ pc = "purge"
    /\ hres.accounts_hash = LatticeHash
    /\ Calls(ops[1], "get_accounts_hash") = {}
    /\ ops[2] = <<>>
    /\ accounts_hashes = <<>>

CapitalizationMismatch == fatal = "accounts hash capitalization mismatch"

\* C15: for a Merkle full snapshot package whose update_accounts_hash returns
\* lamports other than expected_capitalization, calculate_accounts_hash is called
\* exactly once more, with use_bg_thread_pool = false and
\* store_detailed_debug_info_on_failure = true, and the worker panics with no
\* purge and no push for the package; a full snapshot package that goes on to the
\* purge and the handoff has computed lamports equal to expected_capitalization.
C15_CapitalizationMismatch ==
    /\ CapitalizationMismatch =>
         /\ pc = "panicked"
         /\ sel.pkg.kind = "FS" /\ sel.pkg.alg = "Merkle"
         /\ accounts_hashes[sel.pkg.slot].capitalization # sel.pkg.expected_capitalization
         /\ CurrentOps = <<DbOp("update_accounts_hash", sel.pkg.slot, TRUE, FALSE),
                           DbOp("calculate_accounts_hash", sel.pkg.slot, FALSE, TRUE)>>
         /\ Len(pending) = Cardinality(SnapshotsHandled(Len(handled) - 1))
         /\ hres = NoResult
    /\ \A n \in 1..Len(ops) :
         Calls(ops[n], "calculate_accounts_hash") # {} =>
             n = Len(ops) /\ CapitalizationMismatch
    /\ (pc \in {"purge", "submit"} /\ sel.pkg.kind = "FS" /\ sel.pkg.alg = "Merkle") =>
         /\ accounts_hashes[sel.pkg.slot].capitalization = sel.pkg.expected_capitalization
         /\ Calls(CurrentOps, "update_accounts_hash") = {1}
    /\ \A i \in 1..Len(pending) :
         (pending[i].package.kind = "FS" /\ pending[i].hash.kind = "Full") =>
             \E n \in 1..Len(handled) :
                 /\ handled[n].package = pending[i].package
                 /\ ops[n][1] = DbOp("update_accounts_hash", pending[i].package.slot,
                                     TRUE, FALSE)
                 /\ Calls(ops[n], "calculate_accounts_hash") = {}

\* a full snapshot package panics for its capitalization after an earlier
\* package was published
C15_Witness ==
    /\ CapitalizationMismatch
    /\ Len(handled) >= 2
    /\ Len(pending) >= 1

\* C16: for a Merkle incremental snapshot package whose base hash is in the
\* cache, the hashing succeeds whatever capitalization the incremental hash
\* calculation returns, equal to expected_capitalization or not, with no call of
\* calculate_accounts_hash, and the handoff publishes the snapshot package with
\* that capitalization.
C16_IncrementalCapitalizationUnchecked ==
    [][(sel.pkg.kind = "IS" /\ sel.pkg.alg = "Merkle") =>
          /\ (Hash /\ sel.pkg.base \in DOMAIN accounts_hashes) =>
                /\ pc' = "purge"
                /\ fatal' = ""
                /\ sel.pkg.slot \in DOMAIN incremental_accounts_hashes'
                /\ hres'.persistence.incremental_capitalization =
                       incremental_accounts_hashes'[sel.pkg.slot].capitalization
                /\ hres'.persistence.incremental_capitalization \in
                       {sel.pkg.expected_capitalization,
                        sel.pkg.expected_capitalization + 1}
                /\ Calls(ops'[Len(ops')], "calculate_accounts_hash") = {}
          /\ submit_for_packaging =>
                /\ Len(pending') = Len(pending) + 1
                /\ pending'[Len(pending')].package = sel.pkg
                /\ pending'[Len(pending')].persistence = hres.persistence]_vars

\* an incremental snapshot package is in the pending container with a
\* capitalization other than its expected_capitalization
C16_Witness ==
    \E i \in 1..Len(pending) :
        /\ pending[i].package.kind = "IS"
        /\ pending[i].persistence.some
        /\ pending[i].persistence.incremental_capitalization #
               pending[i].package.expected_capitalization
        /\ \A n \in 1..Len(ops) : Calls(ops[n], "calculate_accounts_hash") = {}

\* C17: a Merkle full snapshot package at slot b stores its hash h and
\* capitalization c for slot b and has persistence None; an incremental snapshot
\* package based on b that is hashed while that entry is in the cache gets the
\* persistence record with full_slot = b, full_hash = h, full_capitalization = c
\* and the incremental hash and capitalization computed for it, and that record
\* is what the pending container receives.
C17_BaseHashRoundTrip ==
    /\ (pc = "purge" /\ sel.pkg.kind = "FS" /\ sel.pkg.alg = "Merkle") =>
         /\ hres.persistence = NoPersistence
         /\ hres.accounts_hash = accounts_hashes[sel.pkg.slot].hash
         /\ get_accounts_hash(accounts_hashes, sel.pkg.slot) =
                [some |-> TRUE, hash |-> hres.accounts_hash,
                 capitalization |-> sel.pkg.expected_capitalization]
    /\ (pc = "purge" /\ sel.pkg.kind = "IS" /\ sel.pkg.alg = "Merkle") =>
         /\ sel.pkg.base \in DOMAIN accounts_hashes
         /\ hres.persistence =
                [some |-> TRUE,
                 full_slot |-> sel.pkg.base,
                 full_hash |-> accounts_hashes[sel.pkg.base].hash,
                 full_capitalization |-> accounts_hashes[sel.pkg.base].capitalization,
                 incremental_hash |-> hres.accounts_hash,
                 incremental_capitalization |->
                     incremental_accounts_hashes[sel.pkg.slot].capitalization]
         /\ hres.accounts_hash = incremental_accounts_hashes[sel.pkg.slot].hash
    /\ \A i \in 1..Len(pending) :
         /\ pending[i].package.kind = "FS" => pending[i].persistence = NoPersistence
         /\ (pending[i].package.kind = "IS" /\ pending[i].package.alg = "Merkle") =>
              \E j \in 1..(i - 1) :
                  /\ pending[j].package.kind = "FS"
                  /\ pending[j].package.slot = pending[i].package.base
                  /\ pending[i].persistence.some
                  /\ pending[i].persistence.full_slot = pending[j].package.slot
                  /\ pending[i].persistence.full_hash = pending[j].hash
                  /\ pending[i].persistence.full_capitalization =
                         pending[j].package.expected_capitalization
                  /\ pending[i].persistence.incremental_hash = pending[i].hash

\* a full snapshot package and then an incremental one based on it are in the
\* pending container, the incremental with the hash the full one stored
C17_Witness ==
    \E i \in 1..Len(pending), j \in 1..Len(pending) :
        /\ j < i
        /\ pending[j].package.kind = "FS"
        /\ pending[i].package.kind = "IS"
        /\ pending[i].package.base = pending[j].package.slot
        /\ pending[i].persistence.full_hash = pending[j].hash
        /\ pending[i].persistence.full_capitalization =
               pending[j].package.expected_capitalization

\* the n-th handled package is past the handoff step of its iteration
HandoffDone(n) ==
    \/ n < Len(handled)
    \/ n = Len(handled) /\ pc \in {"datapoint", "top", "stopped"}
    \/ n = Len(handled) /\ EahAssertionFailed

\* C18: the handoff of a hashed package of kind Snapshot(_) pushes exactly one
\* entry, made of the package, its hash and its persistence record, to the
\* pending container; the handoff of an EAH package pushes nothing; and no step
\* of the worker removes or alters an entry of the container.
C18_PackagerHandoff ==
    /\ [](\/ Len(handled) = 0
          \/ Len(pending) = Cardinality({n \in 1..Len(handled) :
                                  /\ HandoffDone(n)
                                  /\ handled[n].package.kind \in {"FS", "IS"}}))
    /\ [][/\ (pc = "submit" /\ pc' # pc /\ sel.pkg.kind \in {"FS", "IS"}) =>
                pending' = Append(pending, [package |-> sel.pkg,
                                            hash |-> hres.accounts_hash,
                                            persistence |-> hres.persistence])
          /\ (pc = "submit" /\ pc' # pc /\ sel.pkg.kind = "EAH") => pending' = pending
          /\ pc = "submit" => hres # NoResult
          /\ pc # "submit" => pending' = pending
          /\ Len(pending') >= Len(pending)
          /\ SubSeq(pending', 1, Len(pending)) = pending]_vars

\* an EAH package and a snapshot package went through the handoff, which left
\* one entry in the pending container
C18_Witness ==
    /\ Len(handled) = 2
    /\ HandoffDone(2)
    /\ \E n \in 1..2 : handled[n].package.kind = "EAH"
    /\ \E n \in 1..2 : handled[n].package.kind \in {"FS", "IS"}
    /\ Len(pending) = 1

\* the steps of the worker: from one position of its loop to the next
Steps ==
    {<<"top", "hash">>, <<"hash", "purge">>, <<"purge", "submit">>,
     <<"submit", "datapoint">>, <<"datapoint", "top">>,
     <<"top", "panicked">>, <<"hash", "panicked">>, <<"top", "stopped">>}

\* the calls of the lookup and the hash computation in the log o
HashCalls(o) ==
    Calls(o, "get_accounts_hash") \cup Calls(o, "update_accounts_hash")
        \cup Calls(o, "update_incremental_accounts_hash")
        \cup Calls(o, "calculate_accounts_hash")

\* C19: in every iteration that handles a package the steps are hash, then
\* purge, then handoff: the purge call for a package comes after the lookup of
\* its base hash and its hash computation, and its entry is pushed to the
\* pending container only once its purge step is over.
C19_HashPurgeHandoff ==
    /\ [][pc' # pc => <<pc, pc'>> \in Steps]_vars
    /\ [](\A n \in 1..Len(ops) :
            \A i \in Calls(ops[n], "purge_old_accounts_hashes"), j \in HashCalls(ops[n]) :
                j < i)
    /\ []((pc = "purge" /\ sel.pkg.alg = "Merkle") => HashCalls(CurrentOps) # {})
    /\ [][pending' # pending =>
            /\ pc = "submit"
            /\ pending'[Len(pending')].package = sel.pkg
            /\ ops' = ops
            /\ (~cfg \/ sel.pkg.kind = "FS") =>
                   CurrentOps[Len(CurrentOps)] =
                       DbOp("purge_old_accounts_hashes", sel.pkg.slot, FALSE, FALSE)]_vars

\* an incremental package was handled with generation off: looked up and
\* hashed, then the purge for its slot removed the hash of its base, then its
\* entry was pushed
C19_Witness ==
    /\ pc = "datapoint"
    /\ sel.pkg.kind = "IS"
    /\ CurrentOps = <<DbOp("get_accounts_hash", sel.pkg.base, FALSE, FALSE),
                      DbOp("update_incremental_accounts_hash", sel.pkg.slot, TRUE, FALSE),
                      DbOp("purge_old_accounts_hashes", sel.pkg.slot, FALSE, FALSE)>>
    /\ sel.pkg.base \notin DOMAIN accounts_hashes
    /\ pending[Len(pending)].package = sel.pkg

\* the packages of snapshot kind among the handled ones, in the order in which
\* the selector chose them
ChosenSnapshots ==
    LET S == SelectSeq(handled, LAMBDA h : h.package.kind \in {"FS", "IS"})
    IN  [i \in 1..Len(S) |-> S[i].package]

\* C20: the snapshot packages are in the pending container in the order in
\* which the selector chose their accounts packages: the container holds the
\* chosen packages of snapshot kind, one entry each, in the order of choice,
\* short of the package being handled at most.
C20_PublishedInSelectionOrder ==
    /\ Len(pending) <= Len(ChosenSnapshots)
    /\ Len(pending) >= Len(ChosenSnapshots) - 1
    /\ \A i \in 1..Len(pending) : pending[i].package = ChosenSnapshots[i]
    /\ Len(pending) < Len(ChosenSnapshots) =>
         /\ sel.pkg = ChosenSnapshots[Len(ChosenSnapshots)]
         /\ pc \in {"hash", "purge", "submit", "panicked"}

\* three packages chosen one after the other are published, not all the same
C20_Witness ==
    /\ Len(pending) = 3
    /\ Len(handled) = 3
    /\ pending[1].package # pending[2].package
    /\ pending[2].package # pending[3].package
    /\ pending[1].package.slot < pending[3].package.slot

(***************************************************************************)
(* Properties of whole runs of the worker.                                 *)
(***************************************************************************)
\* the slots of the entries of the pending container whose kind is k, in order
PublishedSlots(k) ==
    LET S == SelectSeq(pending, LAMBDA e : e.package.kind = k)
    IN  [i \in 1..Len(S) |-> S[i].package.slot]

StrictlyIncreasing(s) == \A i \in 1..(Len(s) - 1) : s[i] < s[i + 1]

C22_ErrStopsTheWorker ==
    /\ [][(pc = "err" /\ pc' # pc) =>
            /\ pc' = "stopped"
            /\ exit'
            /\ UNCHANGED <<queue, sel, dbVars, ops, handled, pending, metrics>>]_vars
    /\ [](pc = "err" =>
            /\ Calls(CurrentOps, "purge_old_accounts_hashes") = {}
            /\ Len(pending) = Cardinality(SnapshotsHandled(Len(handled) - 1))
            /\ metrics = Len(handled) - 1)
    /\ [](pc = "stopped" => exit)
    /\ [][pc = "stopped" => UNCHANGED <<pc, sel, handled, dbVars, pending, metrics>>]_vars

\* the worker stopped on the Err of its first package, with a package left in
\* the queue
C22_Witness ==
    /\ pc = "stopped"
    /\ exit
    /\ Len(handled) = 1
    /\ metrics = 0
    /\ pending = <<>>
    /\ queue # <<>>

\* the worker thread has ended
WorkerEnded == pc \in {"panicked", "stopped"}

ReEnqueueFailure == fatal = "re-enqueue accounts package"

\* C24 as claimed: a failed re-enqueue ends the worker loop with an Err
\* outcome, which sets the shared exit flag.
C24_ReEnqueueFailureSetsExit == ReEnqueueFailure => (exit /\ pc = "stopped")

\* C24 as amended: a failed re-enqueue is not passed over: the try_send on the
\* full channel makes the worker panic with the message of the expect, the
\* worker thread ends there without handling the chosen package, the channel
\* and the exit flag stay as they were, and every try_send that does not
\* panic has put its package at the back of the channel.
C24_ReEnqueueFailurePanics ==
    /\ [][(pc = "reenqueue" /\ sel' # sel) =>
            /\ sel'.n_re = sel.n_re + 1
            /\ Len(queue) < ChannelCapacity
            /\ queue' = Append(queue, sel.requeued[sel'.n_re])]_vars
    /\ [][(pc = "reenqueue" /\ pc' = "hash") => sel.n_re = Len(sel.requeued)]_vars
    /\ [][(~ReEnqueueFailure /\ ReEnqueueFailure') =>
            /\ pc = "reenqueue" /\ pc' = "panicked"
            /\ Len(queue) = ChannelCapacity
            /\ sel.n_re < Len(sel.requeued)
            /\ UNCHANGED <<queue, sel, exit, handled, ops, dbVars, pending, metrics>>]_vars
    /\ [](ReEnqueueFailure =>
            /\ pc = "panicked"
            /\ Len(handled) = metrics
            /\ sel.requeued[sel.n_re + 1].slot > sel.pkg.slot)

\* the worker panicked on a full channel with a package to send back, the exit
\* flag not set
C24_Witness ==
    /\ ReEnqueueFailure
    /\ ~exit
    /\ Len(queue) = ChannelCapacity
    /\ sel.n_re = 0
    /\ Len(sel.requeued) = 1

\* C25 as claimed: the kind dispatch of the Hasher is never reached with an
\* EAH package, its unreachable branch is never executed, also in runs in
\* which the queue holds an EAH package.
C25_EahNeverHashed == fatal # "EAH is removed"

(***************************************************************************)
(* The lifecycle of a package                                              *)
(***************************************************************************)
\* the packages handed to processing so far, in order
HandledPackages == [i \in 1..Len(handled) |-> handled[i].package]

\* C26: every package sent into the queue is handed to processing at most
\* once; after a call of the selector every drained package is the chosen
\* one, or is put back once, or is dropped, and never two of these; what is
\* put back is a drained package as it was (kind, slot and base slot); and no
\* package is in the queue twice.
C26_PackageLifecycle ==
    /\ \A p \in Range(up.sent) :
         /\ Count(HandledPackages, p) <= 1
         /\ Count(queue, p) <= 1
         /\ Count(HandledPackages, p) + Count(queue, p) <= 1
    /\ Range(HandledPackages) \cup Range(queue) \subseteq Range(up.sent)
    /\ sel.status = "some" =>
         /\ Count(sel.drained, sel.pkg) = 1
         /\ \A i \in 1..Len(sel.requeued) :
              \E j \in 1..Len(sel.drained) :
                  /\ sel.drained[j].kind = sel.requeued[i].kind
                  /\ sel.drained[j].slot = sel.requeued[i].slot
                  /\ sel.drained[j].base = sel.requeued[i].base
                  /\ sel.drained[j] = sel.requeued[i]
         /\ \A p \in Range(sel.drained) :
              Count(sel.requeued, p) + (IF sel.pkg = p THEN 1 ELSE 0) <= 1

\* three packages were sent: one was dropped by the selector, one was handled
\* and then one of a greater slot, drained alone
C26_Witness ==
    /\ Len(handled) = 2
    /\ Len(sel.drained) = 1
    /\ \E i \in 1..Len(up.sent) : /\ Count(HandledPackages, up.sent[i]) = 0
                                  /\ Count(queue, up.sent[i]) = 0
    /\ handled[1].package.slot < handled[2].package.slot
    /\ Len(up.sent) = 3

(***************************************************************************)
(* The priority order of the selector                                       *)
(***************************************************************************)
\* C27: the comparator is a total order (the two directions of a comparison
\* are opposite, a package equals itself, the order is transitive); EAH is
\* above FullSnapshot, which is above every IncrementalSnapshot; within a kind
\* the larger slot is higher, whatever the base slots; between incremental
\* snapshots of one slot the larger base slot is higher; and two packages
\* compare equal exactly when kind, slot and base slot are equal.
C27_PriorityOrder ==
    pc = "compared" =>
        LET a == queue[1]
            b == queue[2]
        IN  /\ sel.ab \in {-1, 0, 1}
            /\ sel.ba = 0 - sel.ab
            /\ sel.aa = 0
            /\ (sel.ab <= 0 /\ sel.bc <= 0) => sel.ac <= 0
            /\ (sel.ab = 0 /\ sel.bc = 0) => sel.ac = 0
            /\ (a.kind = "EAH" /\ b.kind \in {"FS", "IS"}) => sel.ab = 1
            /\ (a.kind = "FS" /\ b.kind = "IS") => sel.ab = 1
            /\ (a.kind = b.kind /\ a.slot > b.slot) => sel.ab = 1
            /\ (a.kind = "IS" /\ b.kind = "IS" /\ a.slot = b.slot /\ a.base > b.base)
                   => sel.ab = 1
            /\ sel.ab = 0 <=> (a.kind = b.kind /\ a.slot = b.slot /\ a.base = b.base)

\* an incremental snapshot of the greater slot and the smaller base slot is
\* compared with one of the smaller slot and the greater base slot, and is
\* Greater
C27_Witness ==
    /\ pc = "compared"
    /\ queue[1] = new_iss(4, 1)
    /\ queue[2] = new_iss(3, 2)
    /\ sel.ab = 1

(***************************************************************************)
(* Batches of recv_mmsg                                                     *)
(***************************************************************************)
\* what a packet holds once a datagram was received into it
Received(datagram) ==
    [meta |-> [size |-> datagram.size, addr |-> datagram.from], data |-> datagram.data]

\* the packets the calls so far have filled, call after call
RECURSIVE Delivered(_)
Delivered(n) ==
    IF n = 0 THEN <<>>
    ELSE Delivered(n - 1) \o SubSeq(handled[n].packets, 1, handled[n].nrecv)

\* C28: a call with k >= 1 datagrams queued and m >= 1 cleared packets returns
\* n = min(k, m, PACKETS_PER_BATCH); packets[0..n) hold the first n queued
\* datagrams in arrival order, each with its size and its sender's address,
\* the other packets stay cleared; the k - n others stay queued in order, so
\* the calls together deliver the datagrams sent, each once and in the order
\* sent, and the next call starts from the first one not yet delivered.
C28_RecvBatches ==
    /\ [][handled' # handled =>
            LET call == handled'[Len(handled')]
                k == Len(queue)
                n == call.nrecv
            IN  /\ call.k = k /\ k >= 1 /\ call.m >= 1
                /\ n = Min(k, Min(call.m, PACKETS_PER_BATCH))
                /\ Len(call.packets) = call.m
                /\ \A i \in 1..call.m :
                     call.packets[i] = IF i <= n THEN Received(queue[i]) ELSE PacketDefault
                /\ queue' = SubSeq(queue, n + 1, k)]_vars
    /\ [](LET sofar == Delivered(Len(handled))
          IN  /\ Len(sofar) + Len(queue) = Len(up.sent)
              /\ \A i \in 1..Len(up.sent) :
                   IF i <= Len(sofar) THEN sofar[i] = Received(up.sent[i])
                   ELSE queue[i - Len(sofar)] = up.sent[i])

\* four datagrams of two senders were queued for a slice of three packets:
\* the call returned a batch of two, the next call the two left
C28_Witness ==
    /\ Len(handled) = 2
    /\ handled[1].k = 4 /\ handled[1].m = 3 /\ handled[1].nrecv = 2
    /\ handled[2].k = 2 /\ handled[2].nrecv = 2
    /\ up.sent[1].from # up.sent[2].from
    /\ queue = <<>>

(***************************************************************************)
(* The exit flag                                                            *)
(***************************************************************************)
\* every package handled so far went through its whole iteration: hashed,
\* purged where the policy says so, handed off if a snapshot, and counted
FullyProcessed ==
    /\ metrics = Len(handled)
    /\ Len(pending) = Cardinality(SnapshotsHandled(Len(handled)))
    /\ \A n \in 1..Len(handled) :
         /\ handled[n].package.alg = "Merkle" => HashCalls(ops[n]) # {}
         /\ (~handled[n].should_generate_snapshots \/ handled[n].package.kind = "FS")
               => Calls(ops[n], "purge_old_accounts_hashes") # {}

\* C29: the exit flag is read at the top of an iteration and nowhere else.
\* Read set, the worker leaves with nothing drained, hashed, purged or
\* published; read clear, it goes on to the selector.  Another thread setting
\* the flag changes nothing of the worker's state, no step after the read
\* leaves the loop for the flag, and each time the worker is back at the top,
\* or has left from there, every package it handled is fully processed.
C29_ExitReadAtTop ==
    /\ [][(pc = "top" /\ pc' # pc) =>
            /\ pc' = IF exit THEN "stopped" ELSE "select"
            /\ UNCHANGED <<queue, sel, handled, ops, dbVars, pending, metrics, exit>>]_vars
    /\ [][(pc # "top" /\ pc' # pc) =>
            pc' \in {"reenqueue", "hash", "purge", "submit", "datapoint", "top",
                     "panicked"}]_vars
    /\ [][exit' # exit =>
            /\ exit'
            /\ UNCHANGED <<pc, queue, sel, handled, ops, dbVars, pending, metrics, hres,
                           fatal>>]_vars
    /\ [](pc \in {"top", "select", "stopped"} => FullyProcessed)

\* the flag was set while the first package was being processed: the worker
\* went through the handoff and the metrics point, read the flag at the top
\* and left with a package in the queue
C29_Witness ==
    /\ pc = "stopped"
    /\ exit
    /\ Len(handled) = 1
    /\ Len(pending) = 1
    /\ metrics = 1
    /\ queue # <<>>

\* C30: once the exit flag is set the worker, scheduled fairly and with
\* terminating hash computations, leaves its loop.  A package is handled only
\* by the step from the selector to the hasher, one at a time; once the flag
\* is set and a package is being processed the worker never comes to a
\* selector call again, and once it is at the top with the flag set it handles
\* nothing more: after the flag is set at most the package of the iteration
\* in progress is completed, and no selector call starts in a later iteration.
C30_ShutdownLiveness ==
    /\ exit ~> WorkerEnded
    /\ [](exit /\ pc \in {"hash", "purge", "submit", "datapoint"}
            => [](pc \notin {"select", "reenqueue"}))
    /\ [][handled' # handled =>
            /\ pc = "reenqueue" /\ pc' = "hash"
            /\ Len(handled') = Len(handled) + 1]_vars
    /\ [][(exit /\ pc \in {"top", "stopped"}) =>
            /\ pc' \in {"top", "stopped"}
            /\ UNCHANGED <<sel, handled, ops, dbVars, pending, metrics, exit>>]_vars

\* the flag is set, the worker is in the middle of an iteration with a package
\* waiting in the queue
C30_Witness ==
    /\ exit
    /\ pc = "purge"
    /\ Len(handled) = 1
    /\ queue # <<>>

(***************************************************************************)
(* The snapshot config over the iterations                                  *)
(***************************************************************************)
\* the number of purge calls made for the n-th handled package
NumPurgeCalls(o, n) == Cardinality(Calls(o[n], "purge_old_accounts_hashes"))

\* C31: the snapshot config is read in every iteration that has selected a
\* package, and the value read is the controller's value at that moment; the
\* purge step of the package decides with that value; a change of the config
\* is no step of the worker and alters no purge already made; and the purge
\* calls of a package change in its own purge step only.
C31_ConfigReadEachIteration ==
    /\ [][handled' # handled =>
            /\ cfg' = gen
            /\ handled'[Len(handled')].should_generate_snapshots = gen]_vars
    /\ [][(pc = "purge" /\ pc' # pc) =>
            LET n == Len(handled)
                generate == handled[n].should_generate_snapshots
            IN  /\ cfg = generate
                /\ NumPurgeCalls(ops', n) - NumPurgeCalls(ops, n) =
                      IF ~generate \/ handled[n].package.kind = "FS" THEN 1 ELSE 0]_vars
    /\ [][gen' # gen => UNCHANGED <<pc, cfg, ops, handled, dbVars, pending, metrics>>]_vars
    /\ [][\A n \in 1..Len(ops) :
            (n < Len(ops) \/ pc # "purge") => NumPurgeCalls(ops', n) = NumPurgeCalls(ops, n)]_vars

\* the config was changed between two iterations: the first package, not a
\* full snapshot, was handled with generation on and has no purge call, the
\* second, not a full snapshot either, with generation off and has one
C31_Witness ==
    /\ Len(handled) = 2
    /\ pc = "submit"
    /\ handled[1].should_generate_snapshots
    /\ ~handled[2].should_generate_snapshots
    /\ handled[1].package.kind # "FS"
    /\ handled[2].package.kind # "FS"
    /\ NumPurgeCalls(ops, 1) = 0
    /\ NumPurgeCalls(ops, 2) = 1

(***************************************************************************)
(* The full snapshot request next to an EAH request                         *)
(***************************************************************************)
\* the packages of kind k in a sequence of packages
OfKind(s, k) == {i \in 1..Len(s) : s[i].kind = k}

\* C32 as claimed: in every call of the selector that drains an EAH package
\* and at least one FullSnapshot package, a FullSnapshot package of the batch
\* is the chosen package or is put back on the queue, whatever the slots.
C32_FullSnapshotKept ==
    (sel.status = "some" /\ OfKind(sel.drained, "EAH") # {} /\ OfKind(sel.drained, "FS") # {})
        => (sel.pkg.kind = "FS" \/ OfKind(sel.requeued, "FS") # {})

(***************************************************************************)
(* Purging with snapshot generation disabled                                *)
(***************************************************************************)
\* every package handled so far was handled with snapshot generation disabled
GenerationOff == \A n \in 1..Len(handled) : ~handled[n].should_generate_snapshots

\* C33 as claimed: with snapshot generation disabled and the Merkle algorithm,
\* the purge after every package never removes a base hash that a later
\* incremental snapshot looks up: no processing fails with a missing base hash.
C33_PurgeEveryTimeIsSafe == GenerationOff => ~MissingBase

(***************************************************************************)
(* The counters of a selector call                                          *)
(***************************************************************************)
\* how many of the packages in `before` are neither the chosen one nor in
\* `after`, counted package by package
RECURSIVE NumDropped(_, _, _, _)
NumDropped(S, before, after, chosen) ==
    IF S = {} THEN 0
    ELSE LET p == CHOOSE x \in S : TRUE
         IN  Count(before, p) - Count(after, p) - (IF p = chosen THEN 1 ELSE 0)
                 + NumDropped(S \ {p}, before, after, chosen)

\* C34: a call of the selector that drains N >= 1 packages, with no producer
\* at work, returns N as its first counter and the number of packages it put
\* back as its second; the queue after the call is as long as the second
\* counter, which is at most N - 1; and N = 1 + re-enqueued + dropped, no
\* package being counted twice or put back more often than it was drained.
C34_CounterConservation ==
    [][(sel' # sel /\ sel'.status = "some") =>
         LET N == Len(queue)
             dropped == NumDropped(Range(queue), queue, queue', sel'.pkg)
         IN  /\ N >= 1
             /\ sel'.n_out = N
             /\ sel'.n_re = Len(sel'.requeued)
             /\ queue' = sel'.requeued
             /\ Len(queue') = sel'.n_re
             /\ sel'.n_re <= N - 1
             /\ \A p \in Range(queue) :
                  Count(queue', p) + (IF p = sel'.pkg THEN 1 ELSE 0) <= Count(queue, p)
             /\ Range(queue') \cup {sel'.pkg} \subseteq Range(queue)
             /\ dropped >= 0
             /\ N = 1 + sel'.n_re + dropped]_vars

\* a call drained four packages, returned one, put one back and dropped two
C34_Witness ==
    /\ sel.status = "some"
    /\ sel.n_out = 4
    /\ sel.n_re = 1
    /\ Len(queue) = 1
    /\ Len(sel.drained) = 4

(***************************************************************************)
(* Repeated calls of the selector with no arrivals                          *)
(***************************************************************************)
\* C35: from a queue of N packages with at most one EAH and no arrivals,
\* every call that returns a package leaves the queue strictly shorter; the
\* packages returned and the packages still queued are together never more
\* than they were, N at the start, so at most N calls return a package; the
\* number of EAH packages queued never grows and the assertion fails only on
\* two or more, so not in these runs; and the caller that goes on calling
\* gets None, with the queue empty, unless the assertion has failed.
C35_DrainTerminates ==
    /\ [][handled' # handled =>
            /\ sel'.status = "some"
            /\ Len(handled') = Len(handled) + 1
            /\ Len(queue') < Len(queue)]_vars
    /\ [][/\ Len(handled') + Len(queue') <= Len(handled) + Len(queue)
          /\ num_eah_packages(queue') <= num_eah_packages(queue)
          /\ sel'.status = "assert" => num_eah_packages(queue) >= 2]_vars
    /\ <>(sel.status = "assert" \/ (sel.status = "none" /\ queue = <<>>))

\* two calls returned a package each, the second after draining a package the
\* first had put back, and the third call returned None on the empty queue
C35_Witness ==
    /\ Len(handled) = 2
    /\ sel.status = "none"
    /\ queue = <<>>

\* C36: with no arrivals between the calls, the slots of the packages that
\* successive calls of the selector return increase strictly, whatever the
\* kinds: a package returned later has a greater slot than every package
\* returned before it.
C36_ReturnedSlotsIncrease ==
    \A i \in 1..Len(handled), j \in 1..Len(handled) :
        i < j => handled[i].package.slot < handled[j].package.slot

\* a FullSnapshot package was returned before the EAH package of a greater
\* slot, a package of a lower priority before one of a higher
C36_Witness ==
    /\ Len(handled) = 2
    /\ handled[1].package.kind = "FS"
    /\ handled[2].package.kind = "EAH"
    /\ handled[1].package.slot < handled[2].package.slot
    /\ Len(sel.drained) = 1

(***************************************************************************)
(* The order of arrival                                                     *)
(***************************************************************************)
\* the sequence B with the packages at positions i and j exchanged
Exchanged(B, i, j) ==
    [k \in 1..Len(B) |-> IF k = i THEN B[j] ELSE IF k = j THEN B[i] ELSE B[k]]

\* two sequences of packages hold the same packages, as many times each
SameMultiset(s, t) ==
    /\ Len(s) = Len(t)
    /\ \A p \in Range(s) \cup Range(t) : Count(s, p) = Count(t, p)

\* C37: the outcome of a call does not depend on the order of arrival: on the
\* packages it drained, as they are or with any two neighbours exchanged, every
\* outcome of the call is of the same sort (a package, None, or the failed assertion),
\* returns a package of the same kind and slot with the same two counters, and
\* puts the same packages back on the queue, as many times each, in whatever
\* order.  Every order of the same packages is reached by such exchanges, and
\* every queue on the way is a queue the calls are checked on.
C37_ArrivalOrderIrrelevant ==
    sel.status # "init" =>
        \A i \in 1..Len(sel.drained) :
          \A j \in {i, i + 1} \cap (1..Len(sel.drained)) :
            \A s \in Selected(Exchanged(sel.drained, i, j)) :
                /\ s.status = sel.status
                /\ s.pkg.kind = sel.pkg.kind
                /\ s.pkg.slot = sel.pkg.slot
                /\ s.n_out = sel.n_out
                /\ s.n_re = sel.n_re
                /\ SameMultiset(s.requeued, sel.requeued)

\* of three packages drained the one that arrived first was returned, one of
\* the two that arrived after it was put back and the other dropped
C37_Witness ==
    /\ sel.status = "some"
    /\ Len(sel.drained) = 3
    /\ sel.pkg = sel.drained[1]
    /\ sel.pkg # sel.drained[2]
    /\ sel.pkg # sel.drained[3]
    /\ sel.n_re = 1

(***************************************************************************)
(* Producers at work during a call of the selector                          *)
(***************************************************************************)
\* the call of the selector is between its drain and its return
InCall == pc = "reenqueue"

\* the packages on the queue that the call in progress did not drain: they
\* were sent after its drain
Late == {i \in 1..Len(queue) : queue[i] \notin Range(sel.drained)}

\* C38: a package sent after the drain of a call and before its return goes
\* on the queue and stays there: the send changes nothing of the call's
\* choice, no step of the call takes a package off the queue, and up to the
\* return the queue holds, in order, the survivors sent back so far and,
\* besides them, only packages the call did not drain, each once, whatever
\* their slots; at the return every survivor is on the queue with them.
C38_ProducersLoseNothing ==
    /\ [][(InCall /\ up' # up) =>
            /\ Len(up'.sent) = Len(up.sent) + 1
            /\ queue' = Append(queue, up'.sent[Len(up'.sent)])
            /\ UNCHANGED <<sel, pc, handled>>]_vars
    /\ [][(InCall /\ queue' # queue) =>
            /\ Len(queue') = Len(queue) + 1
            /\ SubSeq(queue', 1, Len(queue)) = queue]_vars
    /\ [](InCall =>
            /\ sel.pkg \notin Range(queue)
            /\ \A p \in Range(queue) : Count(queue, p) = 1
            /\ \A i \in Late : queue[i] \in Range(up.sent)
            /\ LET back == {i \in 1..Len(queue) : i \notin Late}
               IN  /\ Cardinality(back) = sel.n_re
                   /\ \A i \in back :
                        queue[i] = sel.requeued[Cardinality({j \in back : j <= i})])
    /\ [][(InCall /\ handled' # handled) =>
            /\ sel.n_re = Len(sel.requeued)
            /\ queue' = queue
            /\ Range(sel.requeued) \subseteq Range(queue)
            /\ Len(queue) = Len(sel.requeued) + Cardinality(Late)]_vars

\* the call has returned a package; on the queue is a package sent during the
\* call, of a slot that is not greater than the returned package's slot
C38_Witness ==
    /\ pc = "hash"
    /\ sel.status = "some"
    /\ \E i \in Late : queue[i].slot <= sel.pkg.slot

(***************************************************************************)
(* The errors of the recv_mmsg of the targets other than Linux              *)
(***************************************************************************)
\* the record of the last call of the fallback
LastCall == handled[1]

\* the packet a datagram makes: its size, its sender and its bytes
PacketOf(datagram) ==
    [meta |-> [size |-> datagram.size, addr |-> datagram.from], data |-> datagram.data]

\* the first receive of the last call failed: the call returned that error,
\* wrote no packet, took nothing from the socket and left its mode alone
FirstReceiveFailed ==
    LastCall.trace[1] # "Ok" =>
        /\ LastCall.ret = [ok |-> FALSE, n |-> 0, err |-> LastCall.trace[1]]
        /\ Len(LastCall.trace) = 1
        /\ \A j \in 1..LastCall.m : LastCall.packets[j] = PacketDefault
        /\ LastCall.after = LastCall.before
        /\ LastCall.is_nonblocking = LastCall.was_nonblocking
        /\ LastCall.switches = 0

\* a receive after the first failed: it was the last one, the call returned
\* Ok with the number of packets received before it, and these are the first
\* datagrams of the socket in order, the other packets left as they were
LaterReceiveFailed ==
    \A a \in 2..Len(LastCall.trace) :
        LastCall.trace[a] # "Ok" =>
            /\ a = Len(LastCall.trace)
            /\ LastCall.ret = [ok |-> TRUE, n |-> a - 1, err |-> ""]
            /\ \A j \in 1..LastCall.m :
                 LastCall.packets[j] =
                     IF j < a THEN PacketOf(LastCall.before[j]) ELSE PacketDefault
            /\ LastCall.after = SubSeq(LastCall.before, a, Len(LastCall.before))

\* no more receives than min(PACKETS_PER_BATCH, packets.len()), and a call
\* in which none failed and that went on to its end made them all and
\* returned their number
ReceivesBounded ==
    /\ Len(LastCall.trace) \in 1..Min(PACKETS_PER_BATCH, LastCall.m)
    /\ ((\A a \in 1..Len(LastCall.trace) : LastCall.trace[a] = "Ok")
          /\ LastCall.ret.err # "set_nonblocking")
        => LastCall.ret = [ok |-> TRUE, n |-> Min(PACKETS_PER_BATCH, LastCall.m), err |-> ""]

\* the statement of C39 as the specification has it: the three parts above,
\* and after a first receive that succeeded the socket is non-blocking
C39_FallbackErrorsAsStated ==
    handled # <<>> =>
        /\ FirstReceiveFailed
        /\ LaterReceiveFailed
        /\ ReceivesBounded
        /\ (LastCall.trace[1] = "Ok" => LastCall.is_nonblocking)

\* C39: in the recv_mmsg of the targets other than Linux, a first receive
\* that fails makes the call return that error with no packet; a later
\* receive that fails ends the call with Ok and the number received so far; at
\* most min(PACKETS_PER_BATCH, packets.len()) receives are made; after the
\* first receive that succeeds the call asks once for the non-blocking mode,
\* and either the socket is non-blocking from then on or the request failed
\* and the call returned its error at once, the mode unchanged and the first
\* packet written.
C39_FallbackErrors ==
    handled # <<>> =>
        /\ FirstReceiveFailed
        /\ LaterReceiveFailed
        /\ ReceivesBounded
        /\ LastCall.trace[1] = "Ok" =>
             /\ LastCall.switches = 1
             /\ LastCall.packets[1] = PacketOf(LastCall.before[1])
             /\ \/ LastCall.is_nonblocking
                \/ /\ LastCall.ret = [ok |-> FALSE, n |-> 0, err |-> "set_nonblocking"]
                   /\ Len(LastCall.trace) = 1
                   /\ LastCall.is_nonblocking = LastCall.was_nonblocking
                   /\ LastCall.after = Tail(LastCall.before)

\* a call on a blocking socket with one datagram queued and room for two: the
\* first receive succeeded, the socket became non-blocking, the second
\* receive failed with WouldBlock and the call returned Ok(1)
C39_Witness ==
    /\ handled # <<>>
    /\ ~LastCall.was_nonblocking
    /\ LastCall.trace = <<"Ok", "WouldBlock">>
    /\ LastCall.ret = [ok |-> TRUE, n |-> 1, err |-> ""]
    /\ sel.nonblocking

=============================================================================
